---------------------------- MODULE Spec2Model ----------------------------
(***************************************************************************)
(* SDUI terminal firmware: the topic-routed message bus (sdui_bus.c), the  *)
(* WebSocket transport with fragment reassembly (websocket_manager, the    *)
(* second half of sdui_bus.c) and the callbacks the boot code registers.   *)
(*                                                                         *)
(* C strings are sequences of one-character strings; the NULL pointer is   *)
(* the distinguished value NULLSTR.  JSON handling follows cJSON as the    *)
(* firmware calls it (cJSON_Parse, cJSON_GetObjectItem, cJSON_IsString,    *)
(* cJSON_PrintUnformatted), restricted to integer numbers and to the       *)
(* escapes \" \\ \/ \n \t \r; cJSON's own allocations are taken to         *)
(* succeed.                                                                *)
(***************************************************************************)
EXTENDS Integers, Sequences, FiniteSets, TLC

(***************************************************************************)
(* Characters and C strings                                                *)
(***************************************************************************)
NULLSTR == <<"NULL">>

QUOTE == "\""

BSLASH == "\\"

Digits == <<"0", "1", "2", "3", "4", "5", "6", "7", "8", "9">>

IsDigit(c) == \E i \in 1..10 : Digits[i] = c

DigitVal(c) == (CHOOSE i \in 1..10 : Digits[i] = c) - 1

\* One past the end of a C string reads its terminator.
At(buf, pos) == IF pos >= 1 /\ pos <= Len(buf) THEN buf[pos] ELSE "NUL"

Upper == <<"A", "B", "C", "D", "E", "F", "G", "H", "I", "J", "K", "L", "M",
           "N", "O", "P", "Q", "R", "S", "T", "U", "V", "W", "X", "Y", "Z">>

Lower == <<"a", "b", "c", "d", "e", "f", "g", "h", "i", "j", "k", "l", "m",
           "n", "o", "p", "q", "r", "s", "t", "u", "v", "w", "x", "y", "z">>

tolower(c) ==
    IF \E i \in 1..26 : Upper[i] = c
    THEN Lower[CHOOSE i \in 1..26 : Upper[i] = c]
    ELSE c

\* strcmp(a, b) == 0
strcmp0(a, b) == a # NULLSTR /\ b # NULLSTR /\ a = b

\* cJSON's case_insensitive_strcmp(a, b) == 0; a NULL operand never matches.
case_insensitive_strcmp0(a, b) ==
    /\ a # NULLSTR
    /\ b # NULLSTR
    /\ Len(a) = Len(b)
    /\ \A i \in 1..Len(a) : tolower(a[i]) = tolower(b[i])

\* strncpy(dst, src, n) followed by dst[n] = '\0': the first n bytes of src.
strncpy(src, n) == IF Len(src) <= n THEN src ELSE SubSeq(src, 1, n)

(***************************************************************************)
(* cJSON items: type, valuestring, valueint, the child list and the key.   *)
(***************************************************************************)
Item(type, valuestring, valueint, child, key) ==
    [type |-> type, valuestring |-> valuestring, valueint |-> valueint,
     child |-> child, string |-> key]

\* The NULL cJSON pointer.
NULLITEM == Item("NULLPTR", NULLSTR, 0, <<>>, NULLSTR)

cJSON_Null == Item("cJSON_NULL", NULLSTR, 0, <<>>, NULLSTR)

cJSON_Bool(b) ==
    Item(IF b THEN "cJSON_True" ELSE "cJSON_False", NULLSTR, 0, <<>>, NULLSTR)

cJSON_Number(n) == Item("cJSON_Number", NULLSTR, n, <<>>, NULLSTR)

cJSON_String(s) == Item("cJSON_String", s, 0, <<>>, NULLSTR)

cJSON_Array(items) == Item("cJSON_Array", NULLSTR, 0, items, NULLSTR)

cJSON_Object(members) == Item("cJSON_Object", NULLSTR, 0, members, NULLSTR)

\* An item as a member of an object: the same item under a key.
Keyed(key, item) == [item EXCEPT !.string = key]

cJSON_IsString(item) == item # NULLITEM /\ item.type = "cJSON_String"

(***************************************************************************)
(* cJSON_Parse: recursive descent; a result is [ok, item, pos] with pos    *)
(* the offset after the parsed value.                                      *)
(***************************************************************************)
Fail == [ok |-> FALSE, item |-> NULLITEM, pos |-> 0]

Ok(item, pos) == [ok |-> TRUE, item |-> item, pos |-> pos]

IsWs(c) == c \in {" ", "\t", "\n", "\r"}

RECURSIVE buffer_skip_whitespace(_, _)
buffer_skip_whitespace(buf, pos) ==
    IF pos <= Len(buf) /\ IsWs(buf[pos])
    THEN buffer_skip_whitespace(buf, pos + 1)
    ELSE pos

HasPrefix(buf, pos, lit) ==
    /\ pos + Len(lit) - 1 <= Len(buf)
    /\ \A i \in 1..Len(lit) : buf[pos + i - 1] = lit[i]

\* The character an escape sequence stands for ("NUL": not an escape).
Unescape(c) ==
    CASE c = QUOTE  -> QUOTE
      [] c = BSLASH -> BSLASH
      [] c = "/"    -> "/"
      [] c = "n"    -> "\n"
      [] c = "t"    -> "\t"
      [] c = "r"    -> "\r"
      [] OTHER      -> "NUL"

RECURSIVE ScanString(_, _, _)
ScanString(buf, i, acc) ==
    IF i > Len(buf) THEN Fail
    ELSE IF buf[i] = QUOTE THEN Ok(cJSON_String(acc), i + 1)
    ELSE IF buf[i] = BSLASH
         THEN IF i + 1 > Len(buf) \/ Unescape(buf[i + 1]) = "NUL"
              THEN Fail
              ELSE ScanString(buf, i + 2, Append(acc, Unescape(buf[i + 1])))
    ELSE ScanString(buf, i + 1, Append(acc, buf[i]))

parse_string(buf, pos) ==
    IF At(buf, pos) # QUOTE THEN Fail ELSE ScanString(buf, pos + 1, <<>>)

RECURSIVE ScanDigits(_, _, _)
ScanDigits(buf, i, acc) ==
    IF i <= Len(buf) /\ IsDigit(buf[i])
    THEN ScanDigits(buf, i + 1, 10 * acc + DigitVal(buf[i]))
    ELSE [val |-> acc, pos |-> i]

\* The digits of a fraction as "%1.15g" prints them: no trailing zeros.
RECURSIVE TrimZeros(_)
TrimZeros(digits) ==
    IF digits # <<>> /\ digits[Len(digits)] = "0"
    THEN TrimZeros(SubSeq(digits, 1, Len(digits) - 1))
    ELSE digits

\* A number with a fraction: valueint is the integer part, and the digits
\* of the fraction are kept where a number has no string.
FractionNumber(n, digits) ==
    Item("cJSON_Number", IF digits = <<>> THEN NULLSTR ELSE digits, n, <<>>,
         NULLSTR)

\* strtod on the number's characters: a sign, at least one digit, and a
\* fraction if a point and a digit follow.  Exponents are not modelled.
parse_number(buf, pos) ==
    LET neg   == At(buf, pos) = "-"
        first == IF neg THEN pos + 1 ELSE pos
        d     == ScanDigits(buf, first, 0)
        f     == ScanDigits(buf, d.pos + 1, 0)
    IN  IF d.pos = first THEN Fail
        ELSE IF At(buf, d.pos) = "." /\ IsDigit(At(buf, d.pos + 1))
        THEN Ok(FractionNumber(IF neg THEN 0 - d.val ELSE d.val,
                               TrimZeros(SubSeq(buf, d.pos + 1, f.pos - 1))),
                f.pos)
        ELSE Ok(cJSON_Number(IF neg THEN 0 - d.val ELSE d.val), d.pos)

RECURSIVE parse_value(_, _), ParseElements(_, _, _), ParseMembers(_, _, _)
parse_value(buf, pos) ==
    LET c == At(buf, pos) IN
    IF HasPrefix(buf, pos, <<"n", "u", "l", "l">>) THEN Ok(cJSON_Null, pos + 4)
    ELSE IF HasPrefix(buf, pos, <<"f", "a", "l", "s", "e">>)
         THEN Ok(cJSON_Bool(FALSE), pos + 5)
    ELSE IF HasPrefix(buf, pos, <<"t", "r", "u", "e">>)
         THEN Ok(cJSON_Bool(TRUE), pos + 4)
    ELSE IF c = QUOTE THEN parse_string(buf, pos)
    ELSE IF c = "-" \/ IsDigit(c) THEN parse_number(buf, pos)
    ELSE IF c = "["
         THEN LET p == buffer_skip_whitespace(buf, pos + 1) IN
              IF At(buf, p) = "]" THEN Ok(cJSON_Array(<<>>), p + 1)
              ELSE ParseElements(buf, p, <<>>)
    ELSE IF c = "{"
         THEN LET p == buffer_skip_whitespace(buf, pos + 1) IN
              IF At(buf, p) = "}" THEN Ok(cJSON_Object(<<>>), p + 1)
              ELSE ParseMembers(buf, p, <<>>)
    ELSE Fail

\* parse_array's loop: a value, then ',' for another or ']' for the end.
ParseElements(buf, pos, acc) ==
    LET v == parse_value(buf, buffer_skip_whitespace(buf, pos)) IN
    IF ~v.ok THEN Fail
    ELSE LET q == buffer_skip_whitespace(buf, v.pos) IN
         IF At(buf, q) = "," THEN ParseElements(buf, q + 1, Append(acc, v.item))
         ELSE IF At(buf, q) = "]" THEN Ok(cJSON_Array(Append(acc, v.item)), q + 1)
         ELSE Fail

\* parse_object's loop: a string key, ':', a value, then ',' or '}'.
ParseMembers(buf, pos, acc) ==
    LET k == parse_string(buf, buffer_skip_whitespace(buf, pos)) IN
    IF ~k.ok THEN Fail
    ELSE LET q == buffer_skip_whitespace(buf, k.pos) IN
         IF At(buf, q) # ":" THEN Fail
         ELSE LET v == parse_value(buf, buffer_skip_whitespace(buf, q + 1)) IN
              IF ~v.ok THEN Fail
              ELSE LET r == buffer_skip_whitespace(buf, v.pos)
                       m == Keyed(k.item.valuestring, v.item)
                   IN  IF At(buf, r) = ","
                       THEN ParseMembers(buf, r + 1, Append(acc, m))
                       ELSE IF At(buf, r) = "}"
                            THEN Ok(cJSON_Object(Append(acc, m)), r + 1)
                            ELSE Fail

\* cJSON_ParseWithOpts(value, 0, 0): the first value of the text; what
\* follows it is not looked at (require_null_terminated is false).
ParseWithOpts(value) ==
    IF value = NULLSTR THEN Fail
    ELSE parse_value(value, buffer_skip_whitespace(value, 1))

cJSON_Parse(value) == ParseWithOpts(value).item

\* cJSON_GetObjectItem: the first child whose key matches, letter case
\* ignored; children of an array have no key.
cJSON_GetObjectItem(object, name) ==
    IF object = NULLITEM THEN NULLITEM
    ELSE LET hits == {i \in 1..Len(object.child) :
                        case_insensitive_strcmp0(name, object.child[i].string)}
         IN  IF hits = {} THEN NULLITEM
             ELSE object.child[CHOOSE i \in hits : \A j \in hits : i <= j]

(***************************************************************************)
(* cJSON_PrintUnformatted                                                  *)
(***************************************************************************)
EscapeChar(c) ==
    CASE c = QUOTE  -> <<BSLASH, QUOTE>>
      [] c = BSLASH -> <<BSLASH, BSLASH>>
      [] c = "\n"   -> <<BSLASH, "n">>
      [] c = "\t"   -> <<BSLASH, "t">>
      [] c = "\r"   -> <<BSLASH, "r">>
      [] OTHER      -> <<c>>

RECURSIVE EscapeAll(_)
EscapeAll(s) == IF s = <<>> THEN <<>> ELSE EscapeChar(Head(s)) \o EscapeAll(Tail(s))

print_string_ptr(s) == <<QUOTE>> \o EscapeAll(s) \o <<QUOTE>>

RECURSIVE DecimalDigits(_)
DecimalDigits(n) ==
    IF n < 10 THEN <<Digits[n + 1]>>
    ELSE Append(DecimalDigits(n \div 10), Digits[(n % 10) + 1])

print_number(n) == IF n < 0 THEN <<"-">> \o DecimalDigits(0 - n) ELSE DecimalDigits(n)

RECURSIVE print_value(_), PrintElements(_, _), PrintMembers(_, _)
print_value(item) ==
    CASE item.type = "cJSON_NULL"   -> <<"n", "u", "l", "l">>
      [] item.type = "cJSON_False"  -> <<"f", "a", "l", "s", "e">>
      [] item.type = "cJSON_True"   -> <<"t", "r", "u", "e">>
      [] item.type = "cJSON_Number" ->
            IF item.valuestring = NULLSTR THEN print_number(item.valueint)
            ELSE print_number(item.valueint) \o <<".">> \o item.valuestring
      [] item.type = "cJSON_String" -> print_string_ptr(item.valuestring)
      [] item.type = "cJSON_Array"  ->
            <<"[">> \o PrintElements(item.child, 1) \o <<"]">>
      [] item.type = "cJSON_Object" ->
            <<"{">> \o PrintMembers(item.child, 1) \o <<"}">>

PrintElements(child, i) ==
    IF i > Len(child) THEN <<>>
    ELSE print_value(child[i])
         \o (IF i < Len(child) THEN <<",">> ELSE <<>>)
         \o PrintElements(child, i + 1)

PrintMembers(child, i) ==
    IF i > Len(child) THEN <<>>
    ELSE print_string_ptr(child[i].string) \o <<":">> \o print_value(child[i])
         \o (IF i < Len(child) THEN <<",">> ELSE <<>>)
         \o PrintMembers(child, i + 1)

cJSON_PrintUnformatted(item) == print_value(item)

\* cJSON_AddStringToObject / cJSON_AddItemToObject: append under the key.
cJSON_AddItemToObject(object, key, item) ==
    [object EXCEPT !.child = Append(@, Keyed(key, item))]

(***************************************************************************)
(* String literals of the firmware                                         *)
(***************************************************************************)
TOPIC_KEY == <<"t", "o", "p", "i", "c">>

PAYLOAD_KEY == <<"p", "a", "y", "l", "o", "a", "d">>

T_ui_layout == <<"u", "i", "/", "l", "a", "y", "o", "u", "t">>

T_ui_update == <<"u", "i", "/", "u", "p", "d", "a", "t", "e">>

T_audio_play == <<"a", "u", "d", "i", "o", "/", "p", "l", "a", "y">>

T_record_start ==
    <<"a", "u", "d", "i", "o", "/", "c", "m", "d", "/", "r", "e", "c", "o",
      "r", "d", "_", "s", "t", "a", "r", "t">>

T_record_stop ==
    <<"a", "u", "d", "i", "o", "/", "c", "m", "d", "/", "r", "e", "c", "o",
      "r", "d", "_", "s", "t", "o", "p">>

T_audio_record ==
    <<"a", "u", "d", "i", "o", "/", "r", "e", "c", "o", "r", "d">>

T_motion == <<"m", "o", "t", "i", "o", "n">>

STATE_START ==
    <<"{", QUOTE, "s", "t", "a", "t", "e", QUOTE, ":", " ", QUOTE, "s",
      "t", "a", "r", "t", QUOTE, "}">>

STATE_STOP ==
    <<"{", QUOTE, "s", "t", "a", "t", "e", QUOTE, ":", " ", QUOTE, "s",
      "t", "o", "p", QUOTE, "}">>

(***************************************************************************)
(* String literals of sdui_parser.h                                        *)
(***************************************************************************)
K_type == <<"t", "y", "p", "e">>

K_id == <<"i", "d">>

K_children == <<"c", "h", "i", "l", "d", "r", "e", "n">>

K_on_click == <<"o", "n", "_", "c", "l", "i", "c", "k">>

K_on_press == <<"o", "n", "_", "p", "r", "e", "s", "s">>

K_on_release == <<"o", "n", "_", "r", "e", "l", "e", "a", "s", "e">>

K_on_change == <<"o", "n", "_", "c", "h", "a", "n", "g", "e">>

K_anim == <<"a", "n", "i", "m">>

K_text == <<"t", "e", "x", "t">>

K_hidden == <<"h", "i", "d", "d", "e", "n">>

K_bg_color == <<"b", "g", "_", "c", "o", "l", "o", "r">>

K_value == <<"v", "a", "l", "u", "e">>

K_opa == <<"o", "p", "a">>

K_src == <<"s", "r", "c">>

K_img_w == <<"i", "m", "g", "_", "w">>

K_img_h == <<"i", "m", "g", "_", "h">>

K_canvas_w == <<"c", "a", "n", "v", "a", "s", "_", "w">>

K_canvas_h == <<"c", "a", "n", "v", "a", "s", "_", "h">>

K_count == <<"c", "o", "u", "n", "t">>

WT_container == <<"c", "o", "n", "t", "a", "i", "n", "e", "r">>

WT_label == <<"l", "a", "b", "e", "l">>

WT_button == <<"b", "u", "t", "t", "o", "n">>

WT_image == <<"i", "m", "a", "g", "e">>

WT_bar == <<"b", "a", "r">>

WT_slider == <<"s", "l", "i", "d", "e", "r">>

WT_particle == <<"p", "a", "r", "t", "i", "c", "l", "e">>

AT_spin == <<"s", "p", "i", "n">>

AT_color_pulse ==
    <<"c", "o", "l", "o", "r", "_", "p", "u", "l", "s", "e">>

AT_blink == <<"b", "l", "i", "n", "k">>

URI_LOCAL == <<"l", "o", "c", "a", "l", ":", "/", "/">>

URI_SERVER == <<"s", "e", "r", "v", "e", "r", ":", "/", "/">>

T_ui_click == <<"u", "i", "/", "c", "l", "i", "c", "k">>

T_ui_action == <<"u", "i", "/", "a", "c", "t", "i", "o", "n">>

WID_unknown == <<"u", "n", "k", "n", "o", "w", "n">>

PL_HEAD == <<"{", QUOTE, "i", "d", QUOTE, ":", QUOTE>>

PL_TAIL == <<QUOTE, "}">>

K_repeat == <<"r", "e", "p", "e", "a", "t">>

K_from == <<"f", "r", "o", "m">>

AT_breathe == <<"b", "r", "e", "a", "t", "h", "e">>

AT_slide_in == <<"s", "l", "i", "d", "e", "_", "i", "n">>

AT_shake == <<"s", "h", "a", "k", "e">>

FROM_left == <<"l", "e", "f", "t">>

FROM_right == <<"r", "i", "g", "h", "t">>

PL_VALUE == <<QUOTE, ",", QUOTE, "v", "a", "l", "u", "e", QUOTE, ":">>


(***************************************************************************)
(* Program constants                                                       *)
(***************************************************************************)
MAX_SUBSCRIBERS == 15

\* sizeof(subscribers[i].topic)
TOPIC_SIZE == 32

\* The op codes the handler accepts: continuation and text frames.
OP_CONT == 0

OP_TEXT == 1

MAX_ID_ENTRIES == 64

\* sizeof(s_id_table[i].id), sizeof(sd->id)
ID_SIZE == 32

MAX_SPIN_ANIM == 2

\* sizeof(ad->on_click), sizeof(sd->on_change)
URI_SIZE == 64

\* sizeof(pl) in dispatch_action and slider_changed_cb
PL_SIZE == 128

NULLCB == "NULL"

\* No call of websocket_send_json is in progress.
Returned == [state |-> "idle", payload |-> NULLSTR]

\* The websocket task outside the subscribers.
Delivered == [state |-> "idle", frame |-> NULLSTR]

\* The UI lock when no task holds it.
Unlocked == [holder |-> "none", depth |-> 0]

\* A stored ssid.
S_home == <<"h", "o", "m", "e">>

NULLCLIENT == "NULL"

\* The NULL rx_buffer, and a buffer of `size` bytes holding `data`.
NULLBUF == [size |-> 0, data |-> NULLSTR]

Buf(size, data) == [size |-> size, data |-> data]

(***************************************************************************)
(* State                                                                   *)
(***************************************************************************)
VARIABLES
    pc,             \* app_main's position ("api": the bus driven directly)
    subscribers,    \* subscribers[1..sub_count], sdui_bus.c:16-17
    is_recording,   \* audio_manager.c: the recording flag
    client,         \* websocket client handle, sdui_bus.c:114
    global_rx_cb,   \* sdui_bus.c:115
    is_connected,   \* sdui_bus.c:116
    rx_buffer,      \* sdui_bus.c:119
    rx_buffer_len,  \* sdui_bus.c:120
    fault,          \* a write through a NULL or past the end of rx_buffer
    link,           \* the WebSocket library's own connection state
    wire,           \* the frame the library is delivering, chunk by chunk
    hist,           \* what has happened to the link so far
    send_calls,     \* the last step's calls of websocket_send_json
    lib_tx,         \* the last step's esp_websocket_client_send_text calls
    calls,          \* the last step's subscriber invocations, in order
    rx_calls,       \* the last step's invocations of global_rx_cb
    bus_heap,       \* strings the bus allocated in the last step and kept
    op,             \* the last step's operation and its arguments
    s_root_view,    \* sdui_parser.h:196, the handle of the root view
    lv_objs,        \* LVGL's objects below the screen; a handle is an index
    s_id_table,     \* s_id_table[0..s_id_count-1], sdui_parser.h:204-205
    s_spin_count,   \* sdui_parser.h:209
    lv_anims,       \* LVGL's running animations
    lv_heap,        \* the parser's live heap blocks, by address
    lv_log,         \* what the last step did in the parser and in LVGL
    ui_task,        \* the LVGL task's position in audio_record_start/stop
    record_task,    \* audio_record_task's position in its loop
    uplink,         \* the audio/record publishes so far, summarised
    shake_cooldown, \* main.c:164, imu_polling_task's local
    motion,         \* whether motion was published, and the samples since
    ui_lock,        \* the LVGL port's recursive mutex: its holder, its depth
    inactive_time,  \* lv_disp_get_inactive_time(NULL), in ms
    is_screen_sleeping, \* main.c:19
    backlight,      \* the brightness last set, in percent
    nvs_ssid,       \* the ssid in the NVS namespace "storage"
    sender,         \* the caller of websocket_send_json: idle, or inside
                    \* esp_websocket_client_send_text with a payload
    tx_ready,       \* whether the library can take a frame at once: its
                    \* lock is free and the socket is writable
    rx_task         \* the websocket task: idle, or inside a subscriber
                    \* waiting for the UI lock with the frame it delivers

vars == <<pc, subscribers, is_recording, client, global_rx_cb, is_connected,
          rx_buffer, rx_buffer_len, fault, link, wire, hist, send_calls,
          lib_tx, calls, rx_calls, bus_heap, op, s_root_view, lv_objs,
          s_id_table, s_spin_count, lv_anims, lv_heap, lv_log, ui_task,
          record_task, uplink, shake_cooldown, motion, ui_lock,
          inactive_time, is_screen_sleeping, backlight, nvs_ssid, sender,
          tx_ready, rx_task>>

sub_count == Len(subscribers)

Op(name, topic, payload, cb, n) ==
    [name |-> name, topic |-> topic, payload |-> payload, cb |-> cb, n |-> n]

(***************************************************************************)
(* What one step does outside the bus table and the transport: the         *)
(* recording flag, the sends, the subscriber invocations, the bus's heap.  *)
(***************************************************************************)
\* The parser's log of one step: the blocks freed (with the object whose
\* deletion freed them), a free of an address that holds no block, the spin
\* requests, the animations started, the publishes of the action
\* dispatchers, whether the tree was cleaned, the nodes constructed with
\* their ids, the spin slots released, the object an update went on to
\* change, and the allocation that was made to fail.
NoLog ==
    [frees |-> <<>>, bad_free |-> FALSE, spins |-> <<>>, started |-> <<>>,
     pubs |-> <<>>, cleaned |-> FALSE, created |-> <<>>, released |-> <<>>,
     target |-> 0, fail |-> 0, canvas |-> <<>>, ran |-> <<>>,
     waited |-> FALSE, labelled |-> 0, halted |-> FALSE,
     executed |-> <<>>, null_read |-> FALSE, spk |-> <<>>]

\* `ret`: the value the last call returned; `deleting`: the object whose
\* LV_EVENT_DELETE is being delivered; `alloc_fail`: the allocation, counted
\* from here, that fails (0: none).
Fresh ==
    [is_recording |-> is_recording, send_calls |-> <<>>, lib_tx |-> <<>>,
     calls |-> <<>>, heap |-> 0,
     s_root_view |-> s_root_view, lv_objs |-> lv_objs,
     s_id_table |-> s_id_table, s_spin_count |-> s_spin_count,
     lv_anims |-> lv_anims, lv_heap |-> lv_heap, lv_log |-> NoLog,
     ret |-> 0, deleting |-> 0, alloc_fail |-> 0,
     ui_task |-> ui_task, record_task |-> record_task, uplink |-> uplink,
     shake_cooldown |-> shake_cooldown, motion |-> motion,
     task |-> "caller", ui_lock |-> ui_lock, inactive_time |-> inactive_time,
     is_screen_sleeping |-> is_screen_sleeping, backlight |-> backlight,
     nvs_ssid |-> nvs_ssid, sender |-> sender, tx_ready |-> tx_ready,
     rx_task |-> rx_task]

\* The step is taken by the given task.
FreshOf(task) == [Fresh EXCEPT !.task = task]

Commit(st) ==
    \E s \in {st} :
        /\ is_recording' = s.is_recording
        /\ send_calls' = s.send_calls
        /\ lib_tx' = s.lib_tx
        /\ calls' = s.calls
        /\ bus_heap' = s.heap
        /\ s_root_view' = s.s_root_view
        /\ lv_objs' = s.lv_objs
        /\ s_id_table' = s.s_id_table
        /\ s_spin_count' = s.s_spin_count
        /\ lv_anims' = s.lv_anims
        /\ lv_heap' = s.lv_heap
        /\ lv_log' = s.lv_log
        /\ ui_task' = s.ui_task
        /\ record_task' = s.record_task
        /\ uplink' = s.uplink
        /\ shake_cooldown' = s.shake_cooldown
        /\ motion' = s.motion
        /\ ui_lock' = s.ui_lock
        /\ inactive_time' = s.inactive_time
        /\ is_screen_sleeping' = s.is_screen_sleeping
        /\ backlight' = s.backlight
        /\ nvs_ssid' = s.nvs_ssid
        /\ sender' = s.sender
        /\ tx_ready' = s.tx_ready
        /\ rx_task' = s.rx_task

(***************************************************************************)
(* websocket_send_json, sdui_bus.c:206-216                                 *)
(***************************************************************************)
SendDropped_IgnoresLink(payload) == client = NULLCLIENT \/ payload = NULLSTR

SendDropped(payload) ==
    ~is_connected \/ client = NULLCLIENT \/ payload = NULLSTR

\* The timeout websocket_send_json passes to the library, sdui_bus.c:215.
SEND_TIMEOUT == "portMAX_DELAY"

\* esp_websocket_client_send_text(client, payload, len, timeout): when the
\* library can take the frame it is written and the call returns; when it
\* cannot, the call waits, for ever with portMAX_DELAY, and gives up at
\* once with a timeout of 0.
esp_websocket_client_send_text(st, payload, timeout) ==
    IF st.tx_ready THEN [st EXCEPT !.lib_tx = Append(@, payload)]
    ELSE IF timeout = "portMAX_DELAY"
    THEN [st EXCEPT !.sender = [state |-> "in_send_text",
                                payload |-> payload]]
    ELSE st

websocket_send_json(st, payload, by) ==
    LET st1 == [st EXCEPT !.send_calls =
                    Append(@, [payload |-> payload, by |-> by])]
    IN  IF SendDropped(payload) THEN st1
        ELSE esp_websocket_client_send_text(st1, payload, SEND_TIMEOUT)

(***************************************************************************)
(* sdui_bus_publish_up, sdui_bus.c:74-92                                   *)
(***************************************************************************)
\* The payload as a structured value, NULLITEM when cJSON_Parse rejects it.
PublishJson(payload) == cJSON_Parse(payload)

sdui_bus_publish_up(st, topic, payload, by) ==
    LET root         == cJSON_AddItemToObject(cJSON_Object(<<>>), TOPIC_KEY,
                                              cJSON_String(topic))
        payload_json == PublishJson(payload)
        full         == IF payload_json # NULLITEM
                        THEN cJSON_AddItemToObject(root, PAYLOAD_KEY, payload_json)
                        ELSE cJSON_AddItemToObject(root, PAYLOAD_KEY,
                                 cJSON_String(IF payload # NULLSTR
                                              THEN payload ELSE <<>>))
        out_str      == cJSON_PrintUnformatted(full)
    IN  websocket_send_json(st, out_str, by)

(***************************************************************************)
(* audio_record_start / audio_record_stop, audio_manager.c:129-147         *)
(***************************************************************************)
audio_record_start_Level(st) ==
    [sdui_bus_publish_up(st, T_audio_record, STATE_START,
                         "audio_record_start")
        EXCEPT !.is_recording = TRUE]

audio_record_start(st) ==
    IF ~st.is_recording
    THEN [sdui_bus_publish_up(st, T_audio_record, STATE_START,
                              "audio_record_start")
            EXCEPT !.is_recording = TRUE]
    ELSE st

audio_record_stop(st) ==
    IF st.is_recording
    THEN sdui_bus_publish_up([st EXCEPT !.is_recording = FALSE],
                             T_audio_record, STATE_STOP, "audio_record_stop")
    ELSE st

(***************************************************************************)
(* LVGL and the C heap as sdui_parser uses them.  An object handle is the  *)
(* object's index in lv_objs, a heap address a positive number; 0 is NULL  *)
(* for both.  Of an object the model keeps its class, its parent, its      *)
(* text, value, background colour, opacity and hidden flag, and its event  *)
(* callbacks in the order they were added; sizes, alignment, fonts and the *)
(* other styles are left out.                                              *)
(***************************************************************************)
NULLOBJ == 0

NULLPTR == 0

LV_OPA_TRANSP == 0

LV_OPA_COVER == 255

cJSON_IsNumber(item) == item # NULLITEM /\ item.type = "cJSON_Number"

cJSON_IsObject(item) == item # NULLITEM /\ item.type = "cJSON_Object"

cJSON_IsArray(item) == item # NULLITEM /\ item.type = "cJSON_Array"

cJSON_IsTrue(item) == item # NULLITEM /\ item.type = "cJSON_True"

Obj(class, parent) ==
    [class |-> class, parent |-> parent, text |-> NULLSTR, hidden |-> FALSE,
     value |-> 0, bg_color |-> NULLSTR, opa |-> LV_OPA_COVER, cbs |-> <<>>]

\* lv_obj_create, lv_label_create, ...: the new object is the last child.
lv_obj_create(st, class, parent) ==
    [st EXCEPT !.lv_objs = Append(@, Obj(class, parent)),
               !.ret = Len(st.lv_objs) + 1]

lv_obj_add_event_cb(st, obj, cb, filter, user_data) ==
    [st EXCEPT !.lv_objs[obj].cbs =
        Append(@, [cb |-> cb, filter |-> filter, user_data |-> user_data])]

\* The children of obj, eldest first.
Children(objs, obj) == {h \in 1..Len(objs) : objs[h].parent = obj}

lv_obj_get_child_count(objs, obj) == Cardinality(Children(objs, obj))

\* lv_obj_get_child(obj, 0)
lv_obj_get_child0(objs, obj) ==
    CHOOSE h \in Children(objs, obj) : \A k \in Children(objs, obj) : h <= k

\* LV_ANIM_REPEAT_INFINITE, the largest uint32_t, as the int32_t of the
\* same bits.
LV_ANIM_REPEAT_INFINITE == 0 - 1

\* The repeat count lv_anim_init sets.
REPEAT_ONCE == 1

\* An animation: its variable (an object or a heap address), its exec
\* callback, its repeat count, and whether it repeats for ever.
Anim(var_obj, var_mem, exec_cb, repeat) ==
    [var_obj |-> var_obj, var_mem |-> var_mem, exec_cb |-> exec_cb,
     infinite |-> repeat = LV_ANIM_REPEAT_INFINITE, repeat |-> repeat]

\* lv_anim_start replaces a running animation of the same variable and
\* exec callback.
lv_anim_start(st, a) ==
    [st EXCEPT !.lv_anims = {b \in @ : ~(/\ b.var_obj = a.var_obj
                                          /\ b.var_mem = a.var_mem
                                          /\ b.exec_cb = a.exec_cb)} \cup {a},
               !.lv_log.started = Append(@, a)]

\* A heap block: what it is, the object it was allocated for, its fields.
Block(kind, owner) ==
    [kind |-> kind, owner |-> owner, on_click |-> <<>>, on_press |-> <<>>,
     on_release |-> <<>>, on_change |-> <<>>, id |-> <<>>,
     data_buf |-> NULLPTR, timer |-> FALSE, size |-> 0, canvas_w |-> 0,
     canvas_h |-> 0, count |-> 0, alpha |-> 0, active |-> FALSE]

\* The function f as a table of its values: an address space changed many
\* times in one step is kept as its contents, not as a rule over the older one.
Table(f) == f @@ <<>>

FreshPtr(heap) ==
    CHOOSE p \in 1..(Cardinality(DOMAIN heap) + 1) :
        /\ p \notin DOMAIN heap
        /\ \A q \in 1..(p - 1) : q \in DOMAIN heap

\* calloc / heap_caps_malloc: NULL when the allocation fails.
malloc(st, blk) ==
    IF st.alloc_fail = 1
    THEN [st EXCEPT !.alloc_fail = 0, !.ret = NULLPTR]
    ELSE LET p == FreshPtr(st.lv_heap) IN
         [st EXCEPT !.alloc_fail = IF @ > 1 THEN @ - 1 ELSE 0,
                    !.lv_heap = (p :> blk) @@ @,
                    !.ret = p]

\* free / heap_caps_free; free(NULL) does nothing.
free(st, p) ==
    IF p = NULLPTR THEN st
    ELSE IF p \notin DOMAIN st.lv_heap
    THEN [st EXCEPT !.lv_log.bad_free = TRUE]
    ELSE [st EXCEPT !.lv_heap = Table([q \in DOMAIN @ \ {p} |-> @[q]]),
                    !.lv_log.frees =
                        Append(@, [ptr |-> p, kind |-> st.lv_heap[p].kind,
                                   owner |-> st.lv_heap[p].owner,
                                   at |-> st.deleting])]

(***************************************************************************)
(* Action URI dispatch, sdui_parser.h:411-446                              *)
(***************************************************************************)
RECURSIVE sdui_bus_publish_local(_, _, _)

\* snprintf(pl, sizeof(pl), "{\"id\":\"%s\"}", wid)
ActionPayload(wid) == strncpy(PL_HEAD \o wid \o PL_TAIL, PL_SIZE - 1)

Published(st, kind, topic, payload) ==
    [st EXCEPT !.lv_log.pubs =
        Append(@, [kind |-> kind, topic |-> topic, payload |-> payload])]

\* strncmp(uri, "local://", 8) == 0
UriIsLocal(uri) == HasPrefix(uri, 1, URI_LOCAL)

UriIsServer_Never(uri) == FALSE

\* strncmp(uri, "server://", 9) == 0
UriIsServer(uri) == HasPrefix(uri, 1, URI_SERVER)

\* uri + 8, uri + 9 or the topic a URI without scheme is reported on.
ActionTopic(uri, fallback) ==
    IF UriIsLocal(uri) THEN SubSeq(uri, Len(URI_LOCAL) + 1, Len(uri))
    ELSE IF UriIsServer(uri) THEN SubSeq(uri, Len(URI_SERVER) + 1, Len(uri))
    ELSE fallback

\* sdui_parser.h:430-432 and 875-877
PublishAction(st, local, t, pl, by) ==
    IF local
    THEN sdui_bus_publish_local(Published(st, "local", t, pl), t, pl)
    ELSE sdui_bus_publish_up(Published(st, "up", t, pl), t, pl, by)

dispatch_action(st, uri, wid) ==
    IF uri = NULLSTR \/ uri = <<>> THEN st
    ELSE PublishAction(st, UriIsLocal(uri), ActionTopic(uri, T_ui_click),
                       ActionPayload(wid), "dispatch_action")

\* sdui_parser.h:416-419: the id of the first registry entry of the target.
WidgetId(table, target) ==
    LET hits == {i \in 1..Len(table) : table[i].obj = target}
    IN  IF hits = {} THEN WID_unknown
        ELSE table[CHOOSE i \in hits : \A j \in hits : i <= j].id

BoundAction_PressLostIsPress(ad, code) ==
    CASE code = "LV_EVENT_CLICKED"    -> ad.on_click
      [] code = "LV_EVENT_PRESSED"    -> ad.on_press
      [] code = "LV_EVENT_RELEASED"   -> ad.on_release
      [] code = "LV_EVENT_PRESS_LOST" -> ad.on_press
      [] OTHER                        -> <<>>

\* sdui_parser.h:420-423: the binding an event code stands for.
BoundAction(ad, code) ==
    CASE code = "LV_EVENT_CLICKED"    -> ad.on_click
      [] code = "LV_EVENT_PRESSED"    -> ad.on_press
      [] code = "LV_EVENT_RELEASED"   -> ad.on_release
      [] code = "LV_EVENT_PRESS_LOST" -> ad.on_release
      [] OTHER                        -> <<>>

ActionDispatched(st, uri, wid) ==
    IF uri # <<>> THEN dispatch_action(st, uri, wid) ELSE st

action_event_cb(st, user_data, target, code) ==
    IF user_data = NULLPTR THEN st
    ELSE IF user_data \notin DOMAIN st.lv_heap
    THEN [st EXCEPT !.lv_log.bad_free = TRUE]
    ELSE ActionDispatched(st, BoundAction(st.lv_heap[user_data], code),
                          WidgetId(st.s_id_table, target))

\* sdui_parser.h:868-878
\* snprintf(pl, sizeof(pl), "{\"id\":\"%s\",\"value\":%ld}", sd->id, (long)v)
SliderPayload(id, v) ==
    strncpy(PL_HEAD \o id \o PL_VALUE \o print_number(v) \o <<"}">>,
            PL_SIZE - 1)

SliderDispatched(st, uri, pl) ==
    IF uri = <<>> THEN st
    ELSE PublishAction(st, UriIsLocal(uri), ActionTopic(uri, T_ui_action),
                       pl, "slider_changed_cb")

slider_changed_cb(st, user_data, target) ==
    IF user_data = NULLPTR THEN st
    ELSE IF user_data \notin DOMAIN st.lv_heap
    THEN [st EXCEPT !.lv_log.bad_free = TRUE]
    ELSE SliderDispatched(st, st.lv_heap[user_data].on_change,
                          SliderPayload(st.lv_heap[user_data].id,
                                        st.lv_objs[target].value))

(***************************************************************************)
(* Delete callbacks, sdui_parser.h:465-488                                 *)
(***************************************************************************)
free_action_data_cb(st, user_data) == free(st, user_data)

free_image_data_cb(st, user_data) ==
    IF user_data = NULLPTR THEN st
    ELSE IF user_data \notin DOMAIN st.lv_heap
    THEN [st EXCEPT !.lv_log.bad_free = TRUE]
    ELSE free(free(st, st.lv_heap[user_data].data_buf), user_data)

free_slider_data_cb(st, user_data) == free(st, user_data)

free_color_anim_cb(st, user_data) == free(st, user_data)

SpinReleased_Stuck(n) == n

\* sdui_parser.h:480
SpinReleased(n) == IF n > 0 THEN n - 1 ELSE n

spin_delete_cb(st) ==
    [st EXCEPT !.s_spin_count = SpinReleased(@),
               !.lv_log.released =
                   Append(@, [obj |-> st.deleting, before |-> st.s_spin_count,
                              after |-> SpinReleased(st.s_spin_count)])]

free_particle_data_cb(st, user_data) ==
    IF user_data = NULLPTR THEN st
    ELSE IF user_data \notin DOMAIN st.lv_heap
    THEN [st EXCEPT !.lv_log.bad_free = TRUE]
    ELSE LET pd  == st.lv_heap[user_data]
             st1 == [st EXCEPT !.lv_heap[user_data].timer = FALSE]
         IN  free(free(st1, pd.data_buf), user_data)

(***************************************************************************)
(* Event delivery and object deletion in LVGL                              *)
(***************************************************************************)
\* The callbacks an LV_EVENT_DELETE reaches.  action_event_cb is registered
\* for LV_EVENT_ALL and is reached too: none of its tests
\* (sdui_parser.h:420-423) holds for this code.
RunDeleteCb(st, c) ==
    CASE c.cb = "free_action_data_cb" -> free_action_data_cb(st, c.user_data)
      [] c.cb = "free_image_data_cb" -> free_image_data_cb(st, c.user_data)
      [] c.cb = "free_slider_data_cb" -> free_slider_data_cb(st, c.user_data)
      [] c.cb = "free_color_anim_cb" -> free_color_anim_cb(st, c.user_data)
      [] c.cb = "spin_delete_cb" -> spin_delete_cb(st)
      [] c.cb = "free_particle_data_cb" ->
            free_particle_data_cb(st, c.user_data)
      [] OTHER -> st

RunCb(st, c, target, code) ==
    CASE c.cb = "action_event_cb" ->
            action_event_cb(st, c.user_data, target, code)
      [] c.cb = "slider_changed_cb" ->
            slider_changed_cb(st, c.user_data, target)
      [] OTHER -> RunDeleteCb(st, c)

\* lv_obj_send_event with an input code: the callbacks whose filter is the
\* code or LV_EVENT_ALL, in the order they were added; a callback that
\* deleted the object ends the delivery.  `cbs` are the callbacks at the
\* time of the event.
RECURSIVE DeliverEvent(_, _, _, _, _)
DeliverEvent(st, cbs, i, target, code) ==
    IF i > Len(cbs) \/ st.lv_log.cleaned THEN st
    ELSE IF cbs[i].filter \in {code, "LV_EVENT_ALL"}
         THEN DeliverEvent(RunCb(st, cbs[i], target, code), cbs, i + 1,
                           target, code)
         ELSE DeliverEvent(st, cbs, i + 1, target, code)

lv_obj_send_event(st, obj, code) ==
    DeliverEvent(st, st.lv_objs[obj].cbs, 1, obj, code)

\* lv_obj_send_event(obj, LV_EVENT_DELETE, NULL)
RECURSIVE DeliverDelete(_, _, _)
DeliverDelete(st, cbs, i) ==
    IF i > Len(cbs) THEN st
    ELSE IF cbs[i].filter \in {"LV_EVENT_DELETE", "LV_EVENT_ALL"}
         THEN DeliverDelete(RunDeleteCb(st, cbs[i]), cbs, i + 1)
         ELSE DeliverDelete(st, cbs, i + 1)

RECURSIVE IsDescendant(_, _, _)
IsDescendant(objs, h, a) ==
    IF h = NULLOBJ \/ objs[h].parent = NULLOBJ THEN FALSE
    ELSE objs[h].parent = a \/ IsDescendant(objs, objs[h].parent, a)

\* obj_delete_core: LV_EVENT_DELETE to the object, then its animations go;
\* a block still allocated for the object has no owner from here on.
obj_delete_core(st, h) ==
    LET st1 == DeliverDelete([st EXCEPT !.deleting = h],
                             st.lv_objs[h].cbs, 1)
    IN  [st1 EXCEPT !.deleting = NULLOBJ,
                    !.lv_anims = {a \in @ : a.var_obj # h},
                    !.lv_heap = Table([p \in DOMAIN @ |->
                                          IF @[p].owner = h
                                          THEN [@[p] EXCEPT !.owner = NULLOBJ]
                                          ELSE @[p]])]

RECURSIVE DeleteFrom(_, _, _)
DeleteFrom(st, h, a) ==
    IF h > Len(st.lv_objs) THEN st
    ELSE IF IsDescendant(st.lv_objs, h, a)
         THEN DeleteFrom(obj_delete_core(st, h), h + 1, a)
         ELSE DeleteFrom(st, h + 1, a)

\* lv_obj_clean(obj): every descendant of obj is deleted, parents first.
\* The parser cleans the root view only, so the handles that remain are
\* those below the first deleted one.
lv_obj_clean(st, obj) ==
    LET st1  == DeleteFrom(st, 1, obj)
        kept == {h \in 1..Len(st.lv_objs) : ~IsDescendant(st.lv_objs, h, obj)}
    IN  [st1 EXCEPT !.lv_objs = SubSeq(@, 1, Cardinality(kept)),
                    !.lv_log.cleaned = TRUE]

(***************************************************************************)
(* ID registry, sdui_parser.h:451-460                                      *)
(***************************************************************************)
s_id_count(table) == Len(table)

RegistryHasRoom_OffByOne(n) == n <= MAX_ID_ENTRIES

RegistryHasRoom(n) == n < MAX_ID_ENTRIES

register_id(st, id, obj) ==
    IF ~RegistryHasRoom(s_id_count(st.s_id_table)) THEN st
    ELSE [st EXCEPT !.s_id_table =
             Append(@, [id |-> strncpy(id, ID_SIZE - 1), obj |-> obj])]

clear_id_table(st) == [st EXCEPT !.s_id_table = <<>>]

\* sdui_parser.h:1113-1119: the object of the first entry with that id.
sdui_parser_find_by_id(table, id) ==
    IF id = NULLSTR THEN NULLOBJ
    ELSE LET hits == {i \in 1..Len(table) : strcmp0(table[i].id, id)}
         IN  IF hits = {} THEN NULLOBJ
             ELSE table[CHOOSE i \in hits : \A j \in hits : i <= j].obj

(***************************************************************************)
(* apply_common_style, sdui_parser.h:329-406: background colour, opacity   *)
(* and the hidden flag                                                     *)
(***************************************************************************)
StyleBgColor(st, obj, bg_color) ==
    IF cJSON_IsString(bg_color)
    THEN [st EXCEPT !.lv_objs[obj].bg_color = bg_color.valuestring]
    ELSE st

StyleOpa(st, obj, opa) ==
    IF cJSON_IsNumber(opa)
    THEN [st EXCEPT !.lv_objs[obj].opa = opa.valueint % 256]
    ELSE st

StyleHidden(st, obj, hidden) ==
    IF cJSON_IsTrue(hidden)
    THEN [st EXCEPT !.lv_objs[obj].hidden = TRUE]
    ELSE st

apply_common_style(st, node, obj) ==
    StyleHidden(
        StyleOpa(
            StyleBgColor(st, obj, cJSON_GetObjectItem(node, K_bg_color)),
            obj, cJSON_GetObjectItem(node, K_opa)),
        obj, cJSON_GetObjectItem(node, K_hidden))

(***************************************************************************)
(* bind_actions, sdui_parser.h:435-446                                     *)
(***************************************************************************)
\* sdui_parser.h:441-445, ad being what calloc returned in st.ret
ActionsStored(st, obj, ad, oc, op_, or) ==
    IF ad = NULLPTR THEN st
    ELSE lv_obj_add_event_cb(
           [st EXCEPT
              !.lv_heap[ad].on_click =
                  IF cJSON_IsString(oc)
                  THEN strncpy(oc.valuestring, URI_SIZE - 1)
                  ELSE @,
              !.lv_heap[ad].on_press =
                  IF cJSON_IsString(op_)
                  THEN strncpy(op_.valuestring, URI_SIZE - 1)
                  ELSE @,
              !.lv_heap[ad].on_release =
                  IF cJSON_IsString(or)
                  THEN strncpy(or.valuestring, URI_SIZE - 1)
                  ELSE @],
           obj, "action_event_cb", "LV_EVENT_ALL", ad)

ActionsAllocated(st, obj, oc, op_, or) ==
    ActionsStored(st, obj, st.ret, oc, op_, or)

ActionsBound(st, obj, oc, op_, or) ==
    IF oc = NULLITEM /\ op_ = NULLITEM /\ or = NULLITEM THEN st
    ELSE ActionsAllocated(malloc(st, Block("action_data_t", obj)), obj,
                          oc, op_, or)

bind_actions(st, node, obj) ==
    ActionsBound(st, obj, cJSON_GetObjectItem(node, K_on_click),
                 cJSON_GetObjectItem(node, K_on_press),
                 cJSON_GetObjectItem(node, K_on_release))

(***************************************************************************)
(* apply_anim, sdui_parser.h:515-642                                       *)
(***************************************************************************)
\* sdui_parser.h:524-526: the repeat count is LV_ANIM_REPEAT_INFINITE.
RepeatCount(ri) == IF cJSON_IsNumber(ri) THEN ri.valueint ELSE -1

RepeatBelow(rep_raw, zeroToo) == rep_raw < 0 \/ (zeroToo /\ rep_raw = 0)

RepeatInfinite(an, zeroToo) ==
    RepeatBelow(RepeatCount(cJSON_GetObjectItem(an, K_repeat)), zeroToo)

\* sdui_parser.h:526: uint32_t repeat.
RepeatOf(rep_raw) ==
    IF rep_raw < 0 THEN LV_ANIM_REPEAT_INFINITE ELSE rep_raw

RepeatOrInfinite_AsGiven(repeat) == repeat

\* sdui_parser.h:557, 574, 631: (repeat == 0) ? LV_ANIM_REPEAT_INFINITE :
\* repeat
RepeatOrInfinite(repeat) ==
    IF repeat = 0 THEN LV_ANIM_REPEAT_INFINITE ELSE repeat

\* sdui_parser.h:606
SHAKE_REPEAT == 2

SpinAccepted_OneMore(n) == n <= MAX_SPIN_ANIM

\* sdui_parser.h:565
SpinAccepted(n) == n < MAX_SPIN_ANIM

SpinLogged(st, obj, started) ==
    [st EXCEPT !.lv_log.spins =
        Append(@, [obj |-> obj, before |-> st.s_spin_count,
                   started |-> started])]

\* sdui_parser.h:565-582, the spin being accepted
SpinStarted(st, obj) ==
    lv_obj_add_event_cb([st EXCEPT !.s_spin_count = @ + 1],
                        obj, "spin_delete_cb", "LV_EVENT_DELETE", NULLPTR)

\* sdui_parser.h:620-638, cad being what malloc returned in st.ret
PulseStarted(st, obj, cad, repeat) ==
    IF cad = NULLPTR THEN st
    ELSE lv_obj_add_event_cb(
             lv_anim_start(st, Anim(NULLOBJ, cad, "anim_color_exec_cb",
                                    repeat)),
             obj, "free_color_anim_cb", "LV_EVENT_DELETE", cad)

PulseAllocated(st, obj, repeat) == PulseStarted(st, obj, st.ret, repeat)

SlideCb(from) ==
    IF from = FROM_left \/ from = FROM_right
    THEN "anim_translate_x_exec_cb"
    ELSE "anim_translate_y_exec_cb"

SlideFrom(fromi) ==
    IF cJSON_IsString(fromi) THEN fromi.valuestring ELSE FROM_left

\* sdui_parser.h:528-641: the animation of each type.  `repeat`: the count
\* of sdui_parser.h:526; `endless`: LV_ANIM_REPEAT_INFINITE in place of a
\* count of 0.
AnimOfType(st, an, obj, atype, repeat, endless) ==
    IF atype = AT_blink
    THEN lv_anim_start(st, Anim(obj, NULLPTR, "anim_opa_exec_cb", repeat))
    ELSE IF atype = AT_breathe
    THEN lv_anim_start(st, Anim(obj, NULLPTR, "anim_opa_exec_cb", endless))
    ELSE IF atype = AT_spin
    THEN IF st.lv_objs[obj].class # "lv_image"
         THEN SpinLogged(st, obj, FALSE)
         ELSE IF ~SpinAccepted(st.s_spin_count)
         THEN SpinLogged(st, obj, FALSE)
         ELSE SpinStarted(
                  lv_anim_start(SpinLogged(st, obj, TRUE),
                      Anim(obj, NULLPTR, "anim_rotation_exec_cb", endless)),
                  obj)
    ELSE IF atype = AT_slide_in
    THEN lv_anim_start(st, Anim(obj, NULLPTR,
             SlideCb(SlideFrom(cJSON_GetObjectItem(an, K_from))),
             REPEAT_ONCE))
    ELSE IF atype = AT_shake
    THEN lv_anim_start(st, Anim(obj, NULLPTR, "anim_translate_x_exec_cb",
                                SHAKE_REPEAT))
    ELSE IF atype = AT_color_pulse
    THEN PulseAllocated(malloc(st, Block("color_anim_data_t", obj)), obj,
                        endless)
    ELSE st

AnimTyped(st, an, obj, ti, rep_raw) ==
    IF an = NULLITEM \/ obj = NULLOBJ THEN st
    ELSE IF ~cJSON_IsString(ti) THEN st
    ELSE AnimOfType(st, an, obj, ti.valuestring, RepeatOf(rep_raw),
                    RepeatOrInfinite(RepeatOf(rep_raw)))

apply_anim(st, an, obj) ==
    AnimTyped(st, an, obj, cJSON_GetObjectItem(an, K_type),
              RepeatCount(cJSON_GetObjectItem(an, K_repeat)))

(***************************************************************************)
(* The widget constructors, sdui_parser.h:704-954                          *)
(***************************************************************************)
create_container(st, node, parent) == lv_obj_create(st, "lv_obj", parent)

create_label(st, node, parent) ==
    LET st1  == lv_obj_create(st, "lv_label", parent)
        text == cJSON_GetObjectItem(node, K_text)
    IN  [st1 EXCEPT !.lv_objs[st1.ret].text =
            IF cJSON_IsString(text) THEN text.valuestring ELSE <<>>]

create_button(st, node, parent) ==
    LET st1  == lv_obj_create(st, "lv_button", parent)
        btn  == st1.ret
        text == cJSON_GetObjectItem(node, K_text)
    IN  IF cJSON_IsString(text)
        THEN LET st2 == lv_obj_create(st1, "lv_label", btn) IN
             [st2 EXCEPT !.lv_objs[st2.ret].text = text.valuestring,
                         !.ret = btn]
        ELSE st1

Base64Alphabet ==
    {Upper[i] : i \in 1..26} \cup {Lower[i] : i \in 1..26}
        \cup {Digits[i] : i \in 1..10} \cup {"+", "/"}

\* mbedtls_base64_decode(NULL, 0, &out_len, b64, b64len): the length of the
\* decoded bytes, 0 when the text is not base64.
Base64OutLen(b64) ==
    LET n   == Len(b64)
        pad == Cardinality({i \in 1..n : b64[i] = "="})
    IN  IF /\ n > 0
           /\ n % 4 = 0
           /\ pad <= 2
           /\ \A i \in 1..n :
                IF i > n - pad THEN b64[i] = "=" ELSE b64[i] \in Base64Alphabet
        THEN (n \div 4) * 3 - pad
        ELSE 0

create_image(st, node, parent) ==
    LET st1      == lv_obj_create(st, "lv_image", parent)
        img      == st1.ret
        src_item == cJSON_GetObjectItem(node, K_src)
        iw_item  == cJSON_GetObjectItem(node, K_img_w)
        ih_item  == cJSON_GetObjectItem(node, K_img_h)
    IN  IF /\ cJSON_IsString(src_item)
           /\ iw_item # NULLITEM
           /\ ih_item # NULLITEM
           /\ Base64OutLen(src_item.valuestring) > 0
        THEN LET st2 == malloc(st1, Block("image_buf", NULLOBJ))
                 buf == st2.ret
             IN  IF buf = NULLPTR THEN [st2 EXCEPT !.ret = img]
                 ELSE LET st3   == malloc(st2, Block("image_data_t", img))
                          idata == st3.ret
                      IN  IF idata # NULLPTR
                          THEN [lv_obj_add_event_cb(
                                   \* lv_image_set_src: the image draws from buf
                                   [st3 EXCEPT !.lv_heap[idata].data_buf = buf,
                                               !.lv_heap[buf].owner = img],
                                   img, "free_image_data_cb",
                                   "LV_EVENT_DELETE", idata)
                                EXCEPT !.ret = img]
                          ELSE [free(st3, buf) EXCEPT !.ret = img]
        ELSE st1

create_bar(st, node, parent) ==
    LET st1 == lv_obj_create(st, "lv_bar", parent)
        val == cJSON_GetObjectItem(node, K_value)
    IN  IF cJSON_IsNumber(val)
        THEN [st1 EXCEPT !.lv_objs[st1.ret].value = val.valueint]
        ELSE st1

SliderValue(st, slider, val) ==
    IF cJSON_IsNumber(val)
    THEN [st EXCEPT !.lv_objs[slider].value = val.valueint]
    ELSE st

\* sdui_parser.h:895-904, sd being what calloc returned in st.ret
SliderStored(st, slider, sd, oc, id_item) ==
    IF sd = NULLPTR THEN [st EXCEPT !.ret = slider]
    ELSE [lv_obj_add_event_cb(
            lv_obj_add_event_cb(
              [st EXCEPT
                 !.lv_heap[sd].on_change =
                     strncpy(oc.valuestring, URI_SIZE - 1),
                 !.lv_heap[sd].id =
                     IF cJSON_IsString(id_item)
                     THEN strncpy(id_item.valuestring, ID_SIZE - 1)
                     ELSE @],
              slider, "slider_changed_cb", "LV_EVENT_RELEASED", sd),
            slider, "free_slider_data_cb", "LV_EVENT_DELETE", sd)
          EXCEPT !.ret = slider]

SliderAllocated(st, slider, oc, id_item) ==
    SliderStored(st, slider, st.ret, oc, id_item)

SliderBound(st, slider, oc, id_item) ==
    IF cJSON_IsString(oc)
    THEN SliderAllocated(malloc(st, Block("slider_data_t", slider)), slider,
                         oc, id_item)
    ELSE st

SliderCreated(st, node) ==
    SliderBound(SliderValue(st, st.ret, cJSON_GetObjectItem(node, K_value)),
                st.ret, cJSON_GetObjectItem(node, K_on_change),
                cJSON_GetObjectItem(node, K_id))

create_slider(st, node, parent) ==
    SliderCreated(lv_obj_create(st, "lv_slider", parent), node)

\* sdui_parser.h:240
MAX_PARTICLES == 30

\* sdui_parser.h:918-919: the largest canvas width and height.
CANVAS_MAX == 200

\* The PSRAM the canvas buffers are allocated from, README.md:125.
PSRAM_BYTES == 8388608

\* A size_t of 2^31 or more, kept as the largest such number at hand.
SIZE_OVER == 2147483647

\* (item && cJSON_IsNumber(item)) ? item->valueint : dflt
IntField(node, key, dflt) ==
    IF cJSON_IsNumber(cJSON_GetObjectItem(node, key))
    THEN cJSON_GetObjectItem(node, key).valueint
    ELSE dflt

\* sdui_parser.h:918-919
CanvasClamp(v) == IF v > CANVAS_MAX THEN CANVAS_MAX ELSE v

\* sdui_parser.h:921: size_t buf_sz = cw * ch * 2.  The product is an int;
\* a negative one converts to a size_t of 2^32 less its magnitude.
CanvasBytes(cw, ch) == IF cw * ch * 2 < 0 THEN SIZE_OVER ELSE cw * ch * 2

\* heap_caps_malloc: NULL for no bytes and for more bytes than there are.
heap_caps_malloc(st, size, blk) ==
    IF size = 0 \/ size > PSRAM_BYTES
    THEN [st EXCEPT !.alloc_fail = IF @ > 0 THEN @ - 1 ELSE 0,
                    !.ret = NULLPTR]
    ELSE malloc(st, [blk EXCEPT !.size = size])

\* sdui_parser.h:945
ParticleCount(node) ==
    IF cJSON_IsNumber(cJSON_GetObjectItem(node, K_count))
    THEN IF cJSON_GetObjectItem(node, K_count).valueint < MAX_PARTICLES
         THEN cJSON_GetObjectItem(node, K_count).valueint
         ELSE MAX_PARTICLES
    ELSE 20

\* sdui_parser.h:933-953, pd being what calloc returned in st.ret
ParticleData(st, pd, buf, canvas, node, cw, ch) ==
    IF pd = NULLPTR THEN [free(st, buf) EXCEPT !.ret = canvas]
    ELSE [lv_obj_add_event_cb(
              [st EXCEPT !.lv_heap[pd].data_buf = buf,
                         !.lv_heap[pd].timer = TRUE,
                         !.lv_heap[pd].canvas_w = cw,
                         !.lv_heap[pd].canvas_h = ch,
                         !.lv_heap[pd].count = ParticleCount(node)],
              canvas, "free_particle_data_cb", "LV_EVENT_DELETE", pd)
          EXCEPT !.ret = canvas]

\* sdui_parser.h:929-933, the canvas being what lv_canvas_create returned;
\* lv_canvas_set_buffer: the canvas draws into buf.
ParticleCanvas(st, canvas, buf, node, cw, ch) ==
    ParticleData(malloc([st EXCEPT !.lv_heap[buf].owner = canvas],
                        Block("particle_data_t", canvas)),
                 malloc([st EXCEPT !.lv_heap[buf].owner = canvas],
                        Block("particle_data_t", canvas)).ret,
                 buf, canvas, node, cw, ch)

\* sdui_parser.h:922-929, buf being what heap_caps_malloc returned
ParticleBuffered(st, buf, node, parent, cw, ch) ==
    IF buf = NULLPTR THEN lv_obj_create(st, "lv_obj", parent)
    ELSE ParticleCanvas(lv_obj_create(st, "lv_canvas", parent),
                        lv_obj_create(st, "lv_canvas", parent).ret,
                        buf, node, cw, ch)

\* sdui_parser.h:921-922
ParticleSized(st, node, parent, cw, ch) ==
    ParticleBuffered(
        heap_caps_malloc(st, CanvasBytes(cw, ch), Block("particle_buf", NULLOBJ)),
        heap_caps_malloc(st, CanvasBytes(cw, ch),
                         Block("particle_buf", NULLOBJ)).ret,
        node, parent, cw, ch)

\* sdui_parser.h:912-954
create_particle(st, node, parent) ==
    ParticleSized(st, node, parent,
                  CanvasClamp(IntField(node, K_canvas_w, CANVAS_MAX)),
                  CanvasClamp(IntField(node, K_canvas_h, CANVAS_MAX)))

\* audio_manager_is_recording, audio_manager.c:149-152
audio_manager_is_recording_Never(st) == FALSE

audio_manager_is_recording(st) == st.is_recording

\* sdui_parser.h:674-692 for the particles p[0..count-1]: they start alike
\* (calloc) and fade alike, so one alpha and one flag stand for all of
\* them; their positions, drawn with rand(), are left out.
ParticlesAdvanced(pd_blk) ==
    IF pd_blk.count <= 0 THEN pd_blk
    ELSE LET a == IF ~pd_blk.active THEN 255 ELSE pd_blk.alpha
         IN  [pd_blk EXCEPT !.alpha = IF a > 8 THEN a - 8 ELSE 0,
                            !.active = a > 8]

\* particle_timer_cb, sdui_parser.h:647-699; lv_canvas_fill_bg is the
\* canvas write every drawing tick makes.
particle_timer_cb(st, pd) ==
    IF pd = NULLPTR \/ st.lv_heap[pd].owner = NULLOBJ THEN st
    ELSE IF audio_manager_is_recording(st) THEN st
    ELSE [st EXCEPT !.lv_log.canvas =
                        Append(@, [canvas |-> st.lv_heap[pd].owner,
                                   call |-> "lv_canvas_fill_bg"]),
                    !.lv_heap[pd] = ParticlesAdvanced(@)]

(***************************************************************************)
(* parse_node, sdui_parser.h:959-1007                                      *)
(***************************************************************************)
WidgetTypes ==
    {WT_container, WT_label, WT_button, WT_image, WT_bar, WT_slider,
     WT_particle}

Create(st, ts, node, parent) ==
    CASE ts = WT_container -> create_container(st, node, parent)
      [] ts = WT_label     -> create_label(st, node, parent)
      [] ts = WT_button    -> create_button(st, node, parent)
      [] ts = WT_image     -> create_image(st, node, parent)
      [] ts = WT_bar       -> create_bar(st, node, parent)
      [] ts = WT_slider    -> create_slider(st, node, parent)
      [] ts = WT_particle  -> create_particle(st, node, parent)

RECURSIVE parse_node(_, _, _), ParseChildren(_, _, _, _)
\* sdui_parser.h:982-1006, with the constructor's object in st.ret
NodeLogged(st, obj, id) ==
    [st EXCEPT !.lv_log.created =
        Append(@, [obj |-> obj,
                   id |-> IF cJSON_IsString(id)
                          THEN id.valuestring ELSE NULLSTR])]

NodeRegistered(st, obj, id) ==
    IF cJSON_IsString(id) THEN register_id(st, id.valuestring, obj) ELSE st

NodeAnimated(st, obj, anim) ==
    IF cJSON_IsObject(anim) THEN apply_anim(st, anim, obj) ELSE st

NodeChildren(st, obj, children) ==
    IF cJSON_IsArray(children)
    THEN ParseChildren(st, children.child, 1, obj)
    ELSE st

NodeIdentified(st, obj, id) ==
    NodeRegistered(NodeLogged(st, obj, id), obj, id)

NodeBuilt(st, node, obj) ==
    NodeChildren(
        NodeAnimated(
            lv_obj_add_event_cb(
                bind_actions(
                    apply_common_style(
                        NodeIdentified(st, obj, cJSON_GetObjectItem(node, K_id)),
                        node, obj),
                    node, obj),
                obj, "free_action_data_cb", "LV_EVENT_DELETE", NULLPTR),
            obj, cJSON_GetObjectItem(node, K_anim)),
        obj, cJSON_GetObjectItem(node, K_children))

ParseCreated(st, node) == NodeBuilt(st, node, st.ret)

NodeTyped(st, node, parent, type) ==
    IF node = NULLITEM \/ parent = NULLOBJ THEN st
    ELSE IF ~cJSON_IsString(type) THEN st
    ELSE IF type.valuestring \notin WidgetTypes THEN st
    ELSE ParseCreated(Create(st, type.valuestring, node, parent), node)

parse_node(st, node, parent) ==
    NodeTyped(st, node, parent, cJSON_GetObjectItem(node, K_type))

\* cJSON_ArrayForEach(child, children) parse_node(child, parent); the parent
\* is an object of the tree.
ParseChildren(st, items, i, parent) ==
    IF i > Len(items) \/ parent > Len(st.lv_objs) THEN st
    ELSE ParseChildren(parse_node(st, items[i], parent), items, i + 1, parent)

(***************************************************************************)
(* sdui_parser_init, sdui_parser_render and sdui_parser_update,            *)
(* sdui_parser.h:1012-1190                                                 *)
(***************************************************************************)
\* bsp_display_lock(-1): the LVGL port's mutex is recursive; a task that
\* finds it held by another task waits.
bsp_display_lock_Skipped(st) == st

bsp_display_lock(st) ==
    IF st.ui_lock.holder \in {"none", st.task}
    THEN [st EXCEPT !.ui_lock = [holder |-> st.task, depth |-> @.depth + 1]]
    ELSE [st EXCEPT !.lv_log.waited = TRUE]

bsp_display_unlock(st) ==
    IF st.ui_lock.holder # st.task THEN st
    ELSE [st EXCEPT !.ui_lock = IF @.depth > 1
                                THEN [@ EXCEPT !.depth = @ - 1]
                                ELSE Unlocked]

lv_disp_trig_activity_None(st) == st

\* lv_disp_trig_activity(NULL): the display was active just now.
lv_disp_trig_activity(st) == [st EXCEPT !.inactive_time = 0]

\* The function fn starts to run: the task that runs it and the holder of
\* the UI lock are logged.
Ran(st, fn) ==
    [st EXCEPT !.lv_log.ran =
         Append(@, [fn |-> fn, task |-> st.task, holder |-> st.ui_lock.holder])]

root_fade_in(st) ==
    lv_anim_start(st, Anim(st.s_root_view, NULLPTR, "anim_opa_exec_cb",
                           REPEAT_ONCE))

sdui_parser_init(st) ==
    LET st1 == lv_obj_create(st, "lv_obj", NULLOBJ) IN
    clear_id_table([st1 EXCEPT !.s_root_view = st1.ret])

\* main.c:76-89: the spinner and the label of the loading screen.
build_loading_screen(st) ==
    IF st.s_root_view = NULLOBJ THEN Ran(st, "build_loading_screen")
    ELSE LET st1 == lv_obj_create(Ran(st, "build_loading_screen"),
                                  "lv_spinner", st.s_root_view)
             st2 == lv_obj_create(st1, "lv_label", st.s_root_view)
         IN  [st2 EXCEPT !.lv_objs[st2.ret].text =
                 <<"C", "o", "n", "n", "e", "c", "t", "i", "n", "g", ".", ".",
                   ".">>]

RenderReset_KeepsRegistry(st) == [st EXCEPT !.s_spin_count = 0]

\* sdui_parser.h:1070-1071
RenderReset(st) == [clear_id_table(st) EXCEPT !.s_spin_count = 0]

\* sdui_parser.h:1077-1101: the nodes render builds under the root view: the
\* elements of an array, the children of an object that has an array of
\* them, or the object itself.
RenderNodes(root, children) ==
    IF cJSON_IsArray(root) THEN root.child
    ELSE IF cJSON_IsObject(root)
    THEN IF cJSON_IsArray(children) THEN children.child ELSE <<root>>
    ELSE <<>>

\* sdui_parser.h:1084-1087: an object with an array of children styles the
\* root view.
RenderStyled(st, root, children) ==
    IF ~cJSON_IsArray(root) /\ cJSON_IsObject(root) /\ cJSON_IsArray(children)
    THEN apply_common_style(st, root, st.s_root_view)
    ELSE st

RenderBuilt(st, root, children) ==
    root_fade_in(
        ParseChildren(RenderStyled(st, root, children),
                      RenderNodes(root, children), 1, st.s_root_view))

\* sdui_parser.h:1063-1110, root being what cJSON_Parse returned
RenderParsed(st, root) ==
    IF root = NULLITEM THEN st
    ELSE RenderBuilt(
             RenderReset(lv_obj_clean(
                 [st EXCEPT !.lv_objs[st.s_root_view].opa = LV_OPA_TRANSP],
                 st.s_root_view)),
             root, cJSON_GetObjectItem(root, K_children))

sdui_parser_render(st, json_str) ==
    IF json_str = NULLSTR \/ st.s_root_view = NULLOBJ
    THEN Ran(st, "sdui_parser_render")
    ELSE RenderParsed(Ran(st, "sdui_parser_render"), cJSON_Parse(json_str))

\* sdui_parser.h:1139-1189, one property each
TextHolder(objs, target) ==
    IF lv_obj_get_child_count(objs, target) > 0
    THEN lv_obj_get_child0(objs, target)
    ELSE target

\* `labelled`: the object handed to lv_label_set_text.
UpdateText(st, target, text) ==
    IF cJSON_IsString(text)
    THEN [st EXCEPT !.lv_objs[TextHolder(st.lv_objs, target)].text =
                        text.valuestring,
                    !.lv_log.labelled = TextHolder(st.lv_objs, target)]
    ELSE st

UpdateHidden(st, target, hidden) ==
    IF hidden # NULLITEM
    THEN [st EXCEPT !.lv_objs[target].hidden = cJSON_IsTrue(hidden)]
    ELSE st

UpdateBgColor(st, target, bgc) ==
    IF cJSON_IsString(bgc)
    THEN [st EXCEPT !.lv_objs[target].bg_color = bgc.valuestring]
    ELSE st

UpdateValue(st, target, val) ==
    IF /\ cJSON_IsNumber(val)
       /\ st.lv_objs[target].class \in {"lv_bar", "lv_slider"}
    THEN [st EXCEPT !.lv_objs[target].value = val.valueint]
    ELSE st

UpdateOpa(st, target, opa) ==
    IF cJSON_IsNumber(opa)
    THEN [st EXCEPT !.lv_objs[target].opa = opa.valueint % 256]
    ELSE st

UpdateAnim(st, target, anim) ==
    IF cJSON_IsObject(anim) THEN apply_anim(st, anim, target) ELSE st

\* sdui_parser.h:1132-1189, target being what sdui_parser_find_by_id returned
UpdateTarget(st, root, target) ==
    IF target = NULLOBJ THEN st
    ELSE UpdateAnim(
           UpdateOpa(
             UpdateValue(
               UpdateBgColor(
                 UpdateHidden(
                   UpdateText([st EXCEPT !.lv_log.target = target], target,
                              cJSON_GetObjectItem(root, K_text)),
                   target, cJSON_GetObjectItem(root, K_hidden)),
                 target, cJSON_GetObjectItem(root, K_bg_color)),
               target, cJSON_GetObjectItem(root, K_value)),
             target, cJSON_GetObjectItem(root, K_opa)),
           target, cJSON_GetObjectItem(root, K_anim))

\* sdui_parser.h:1123-1137, root being what cJSON_Parse returned
UpdateIdentified(st, root, id_item) ==
    IF root = NULLITEM THEN st
    ELSE IF ~cJSON_IsString(id_item) THEN st
    ELSE UpdateTarget(st, root,
             sdui_parser_find_by_id(st.s_id_table, id_item.valuestring))

UpdateParsed(st, root) ==
    UpdateIdentified(st, root, cJSON_GetObjectItem(root, K_id))

sdui_parser_update(st, json_str) ==
    IF json_str = NULLSTR THEN Ran(st, "sdui_parser_update")
    ELSE UpdateParsed(Ran(st, "sdui_parser_update"), cJSON_Parse(json_str))

(***************************************************************************)
(* The registered callbacks: main.c:22-53 and audio_manager.c:47.  Each    *)
(* invocation is recorded; the record callbacks act on the audio manager.  *)
(***************************************************************************)
\* main.c:22-29
on_ui_layout(st, payload) ==
    IF payload = NULLSTR THEN st
    ELSE bsp_display_unlock(
             sdui_parser_render(lv_disp_trig_activity(bsp_display_lock(st)),
                                payload))

\* main.c:31-39
on_ui_update(st, payload) ==
    IF payload = NULLSTR THEN st
    ELSE bsp_display_unlock(
             sdui_parser_update(lv_disp_trig_activity(bsp_display_lock(st)),
                                payload))

\* audio_manager.c:18, 160: the speaker's handle, set by audio_app_start
\* before the bus has a subscriber.
spk_handle == "speaker"

NULLDEV == "NULL"

\* audio_manager.c:54-70: heap_caps_malloc(0) gives no buffer; the bytes
\* mbedtls_base64_decode gives go to esp_codec_dev_write.
SpeakerWritten(st, base64_data) ==
    IF Len(base64_data) > 0 /\ Base64OutLen(base64_data) > 0
    THEN [st EXCEPT !.lv_log.spk = Append(@, Base64OutLen(base64_data))]
    ELSE st

\* audio_manager.c:47-72.  The first statement logs strlen(base64_data):
\* with a NULL argument it reads through the null pointer (`null_read`),
\* before the test of line 51.
audio_play_callback(st, base64_data) ==
    IF base64_data = NULLSTR
    THEN [st EXCEPT !.lv_log.null_read = TRUE]
    ELSE IF spk_handle = NULLDEV THEN st
    ELSE SpeakerWritten(st, base64_data)

Invoke(cb, payload, st) ==
    LET st1 == [st EXCEPT !.calls = Append(@, [cb |-> cb, payload |-> payload])]
    IN  CASE cb = "on_audio_record_start" -> audio_record_start(st1)
          [] cb = "on_audio_record_stop"  -> audio_record_stop(st1)
          [] cb = "audio_play_callback"   -> audio_play_callback(st1, payload)
          [] cb = "on_ui_layout"          -> on_ui_layout(st1, payload)
          [] cb = "on_ui_update"          -> on_ui_update(st1, payload)
          [] OTHER                        -> st1

(***************************************************************************)
(* sdui_bus_subscribe, sdui_bus.c:24-34                                    *)
(***************************************************************************)
HasRoom_OffByOne(n) == n <= MAX_SUBSCRIBERS

HasRoom(n) == n < MAX_SUBSCRIBERS

StoredTopic(topic) == strncpy(topic, TOPIC_SIZE - 1)

sdui_bus_subscribe(subs, topic, cb) ==
    IF HasRoom(Len(subs))
    THEN Append(subs, [topic |-> StoredTopic(topic), cb |-> cb])
    ELSE subs

(***************************************************************************)
(* sdui_bus_route_down, sdui_bus.c:36-72                                   *)
(***************************************************************************)
PayloadStr_AlwaysPrinted(payload_item) == cJSON_PrintUnformatted(payload_item)

\* sdui_bus.c:53-57: a string's value, anything else re-serialised.
PayloadStr(payload_item) ==
    IF cJSON_IsString(payload_item)
    THEN payload_item.valuestring
    ELSE cJSON_PrintUnformatted(payload_item)

RouteMatch_Prefix(stored, topic) ==
    /\ Len(stored) <= Len(topic)
    /\ SubSeq(topic, 1, Len(stored)) = stored

\* sdui_bus.c:62
RouteMatch(stored, topic) == strcmp0(stored, topic)

RECURSIVE RouteDispatch(_, _, _, _)
RouteDispatch(i, topic, payload_str, st) ==
    IF i > sub_count THEN st
    ELSE IF RouteMatch(subscribers[i].topic, topic) /\ subscribers[i].cb # NULLCB
         THEN RouteDispatch(i + 1, topic, payload_str,
                            Invoke(subscribers[i].cb, payload_str, st))
         ELSE RouteDispatch(i + 1, topic, payload_str, st)

\* sdui_bus.c:69
RouteFree(st, payload_str) ==
    IF payload_str # NULLSTR THEN [st EXCEPT !.heap = @ - 1] ELSE st

\* sdui_bus.c:51-69, the topic being a string
RouteTopic(st, topic, payload_item, payload_str) ==
    RouteFree(
        RouteDispatch(1, topic, payload_str,
                      IF payload_item # NULLITEM
                      THEN [st EXCEPT !.heap = @ + 1] ELSE st),
        payload_str)

RouteParsed(st, root, topic_item, payload_item) ==
    IF root = NULLITEM THEN st
    ELSE IF topic_item # NULLITEM /\ cJSON_IsString(topic_item)
    THEN RouteTopic(st, topic_item.valuestring, payload_item,
                    IF payload_item # NULLITEM
                    THEN PayloadStr(payload_item)
                    ELSE NULLSTR)
    ELSE st

RouteRoot(st, root) ==
    RouteParsed(st, root, cJSON_GetObjectItem(root, TOPIC_KEY),
                cJSON_GetObjectItem(root, PAYLOAD_KEY))

sdui_bus_route_down(st, raw_json) == RouteRoot(st, cJSON_Parse(raw_json))

(***************************************************************************)
(* sdui_bus_publish_local, sdui_bus.c:94-105                               *)
(***************************************************************************)
LocalMatch_Prefix(stored, topic) ==
    /\ Len(stored) <= Len(topic)
    /\ SubSeq(topic, 1, Len(stored)) = stored

\* sdui_bus.c:99
LocalMatch(stored, topic) == strcmp0(stored, topic)

RECURSIVE LocalDispatch(_, _, _, _)
LocalDispatch(i, topic, payload, st) ==
    IF i > sub_count THEN st
    ELSE IF LocalMatch(subscribers[i].topic, topic) /\ subscribers[i].cb # NULLCB
         THEN LocalDispatch(i + 1, topic, payload,
                            Invoke(subscribers[i].cb, payload, st))
         ELSE LocalDispatch(i + 1, topic, payload, st)

sdui_bus_publish_local(st, topic, payload) ==
    IF topic = NULLSTR THEN st ELSE LocalDispatch(1, topic, payload, st)

(***************************************************************************)
(* websocket_event_handler, sdui_bus.c:122-187                             *)
(***************************************************************************)
ConnectedAfter_NeverCleared(event_id, cur) ==
    IF event_id = "WEBSOCKET_EVENT_CONNECTED" THEN TRUE ELSE cur

\* sdui_bus.c:127-134: is_connected after the event.
ConnectedAfter(event_id, cur) ==
    CASE event_id = "WEBSOCKET_EVENT_CONNECTED"    -> TRUE
      [] event_id = "WEBSOCKET_EVENT_DISCONNECTED" -> FALSE
      [] OTHER                                     -> cur

DisconnectCleanup_KeepsBuffer(buf, len) == [buf |-> buf, len |-> len]

\* sdui_bus.c:136-140: the unfinished receive buffer is dropped.
DisconnectCleanup(buf, len) ==
    IF buf # NULLBUF THEN [buf |-> NULLBUF, len |-> 0]
    ELSE [buf |-> buf, len |-> len]

\* sdui_bus.c:145
OpcodeAccepted(op_code) == op_code = OP_TEXT \/ op_code = OP_CONT

\* sdui_bus.c:148-159: a chunk at offset 0 starts a new buffer; `ret` says
\* the handler returned because the allocation failed.
DataStart(ev, allocOk, buf, len) ==
    IF ev.payload_offset = 0
    THEN [buf |-> IF allocOk THEN Buf(ev.payload_len + 1, <<>>) ELSE NULLBUF,
          len |-> 0, ret |-> ~allocOk, over |-> FALSE]
    ELSE [buf |-> buf, len |-> len, ret |-> FALSE, over |-> FALSE]

\* sdui_bus.c:162-165: memcpy at rx_buffer + rx_buffer_len; `over` says the
\* copy ran past the allocation.
DataCopy(ev, s) ==
    IF s.buf # NULLBUF /\ s.len + ev.data_len <= ev.payload_len
    THEN [s EXCEPT !.buf = Buf(s.buf.size, s.buf.data \o ev.data),
                   !.len = s.len + ev.data_len,
                   !.over = s.len + ev.data_len > s.buf.size]
    ELSE s

FrameComplete_SingleChunkOnly(ev, len) == ev.data_len = ev.payload_len

\* sdui_bus.c:168
FrameComplete(ev, len) == len = ev.payload_len

\* The C string in the buffer once rx_buffer[rx_buffer_len] = '\0'.
BufferText(s) == SubSeq(s.buf.data, 1, s.len)

\* WEBSOCKET_EVENT_DATA: the transport after the event, the texts handed to
\* global_rx_cb and what the callback did.
OnData(ev, allocOk, st) ==
    LET keep == [buf |-> rx_buffer, len |-> rx_buffer_len, fault |-> fault,
                 rx |-> <<>>, st |-> st]
    IN  IF ~OpcodeAccepted(ev.op_code) THEN keep
        ELSE LET s0 == DataStart(ev, allocOk, rx_buffer, rx_buffer_len) IN
             IF s0.ret THEN [keep EXCEPT !.buf = s0.buf, !.len = s0.len]
             ELSE LET s1 == DataCopy(ev, s0) IN
                  IF ~FrameComplete(ev, s1.len)
                  THEN [keep EXCEPT !.buf = s1.buf, !.len = s1.len,
                                    !.fault = fault \/ s1.over]
                  ELSE IF s1.buf = NULLBUF
                  THEN [keep EXCEPT !.fault = TRUE]
                  ELSE [buf   |-> NULLBUF,
                        len   |-> 0,
                        fault |-> fault \/ s1.over,
                        rx    |-> IF global_rx_cb # NULLCB
                                  THEN <<BufferText(s1)>> ELSE <<>>,
                        st    |-> IF global_rx_cb # NULLCB
                                  THEN sdui_bus_route_down(st, BufferText(s1))
                                  ELSE st]

(***************************************************************************)
(* Bounds and inputs of the system specification                           *)
(***************************************************************************)
\* The library cuts a frame anywhere within its first and its last SplitZone
\* bytes: a chunk of the frame `payload` that starts at `off` may be of any
\* length, none included, that ends in one of the two zones.
SplitZone == 2

\* The parser is followed while fewer than MaxOrphans blocks have lost their
\* owner; an update starts a colour pulse while fewer than MaxPulses colour
\* structs are allocated; AllocsOwned: the allocations of one render,
\* counted from the first, that may fail.
MaxOrphans == 1

MaxPulses == 1

AllocsOwned == 2

ChunkSizes(payload, off) ==
    {k \in 0..(Len(payload) - off) :
        off + k <= SplitZone \/ off + k >= Len(payload) - SplitZone}

IdleWire ==
    [state |-> "idle", op_code |-> OP_TEXT, payload |-> <<>>, off |-> 0,
     ok |-> FALSE, got |-> <<>>, after_abort |-> FALSE, fresh |-> FALSE]

NoOp == Op("none", NULLSTR, NULLSTR, NULLCB, 0)

(***************************************************************************)
(* Initial state: the statics of sdui_bus.c, websocket_manager and         *)
(* audio_manager as the C runtime zero-initialises them.                   *)
(***************************************************************************)
InitRam ==
    /\ is_recording = FALSE
    /\ client = NULLCLIENT
    /\ global_rx_cb = NULLCB
    /\ is_connected = FALSE
    /\ rx_buffer = NULLBUF
    /\ rx_buffer_len = 0
    /\ fault = FALSE
    /\ link = "none"
    /\ wire = IdleWire
    /\ hist = [disconnected |-> FALSE, reconnected |-> FALSE]
    /\ send_calls = <<>>
    /\ lib_tx = <<>>
    /\ calls = <<>>
    /\ rx_calls = <<>>
    /\ bus_heap = 0
    /\ op = NoOp
    /\ ui_task = "idle"
    /\ record_task = "test"
    /\ uplink = [last |-> "none", streams |-> 0]
    /\ shake_cooldown = 0
    /\ motion = [any |-> FALSE, polled |-> 0]
    /\ ui_lock = Unlocked
    /\ inactive_time = 0
    /\ is_screen_sleeping = FALSE
    /\ backlight = 100
    /\ sender = Returned
    /\ tx_ready = TRUE
    /\ rx_task = Delivered

\* The device has been provisioned.
InitTransport == InitRam /\ nvs_ssid = S_home

InitStatics == subscribers = <<>> /\ InitTransport

\* The statics of sdui_parser.h, and LVGL with no object and no animation.
ZeroUi ==
    [s_root_view |-> NULLOBJ, lv_objs |-> <<>>, s_id_table |-> <<>>,
     s_spin_count |-> 0, lv_anims |-> {}, lv_heap |-> <<>>, lv_log |-> NoLog,
     ret |-> 0, deleting |-> 0, alloc_fail |-> 0, task |-> "app_main",
     ui_lock |-> [holder |-> "app_main", depth |-> 1]]

\* main.c:98-99
BootedUi == build_loading_screen(sdui_parser_init(ZeroUi))

UiIs(s) ==
    /\ s_root_view = s.s_root_view
    /\ lv_objs = s.lv_objs
    /\ s_id_table = s.s_id_table
    /\ s_spin_count = s.s_spin_count
    /\ lv_anims = s.lv_anims
    /\ lv_heap = s.lv_heap
    /\ lv_log = NoLog

Init == InitStatics /\ UiIs(BootedUi) /\ pc = "sdui_bus_init"

InitBus == InitStatics /\ UiIs(ZeroUi) /\ pc = "api"

tvars == <<client, global_rx_cb, is_connected, rx_buffer, rx_buffer_len,
           fault, link, wire, hist>>

(***************************************************************************)
(* Bus operations as steps                                                 *)
(***************************************************************************)
\* sdui_bus_init, sdui_bus.c:19-22
DoBusInit ==
    /\ subscribers' = <<>>
    /\ op' = Op("sdui_bus_init", NULLSTR, NULLSTR, NULLCB, sub_count)
    /\ Commit(Fresh)
    /\ rx_calls' = <<>>
    /\ UNCHANGED tvars

DoSubscribe(topic, cb) ==
    /\ subscribers' = sdui_bus_subscribe(subscribers, topic, cb)
    /\ op' = Op("sdui_bus_subscribe", topic, NULLSTR, cb, sub_count)
    /\ Commit(Fresh)
    /\ rx_calls' = <<>>
    /\ UNCHANGED tvars

DoRouteDown(raw_json, n) ==
    /\ op' = Op("sdui_bus_route_down", NULLSTR, raw_json, NULLCB, n)
    /\ Commit(sdui_bus_route_down(Fresh, raw_json))
    /\ rx_calls' = <<>>
    /\ UNCHANGED <<subscribers, tvars>>

DoPublishUp(topic, payload, n) ==
    /\ op' = Op("sdui_bus_publish_up", topic, payload, NULLCB, n)
    /\ Commit(sdui_bus_publish_up(Fresh, topic, payload, "task"))
    /\ rx_calls' = <<>>
    /\ UNCHANGED <<subscribers, tvars>>

DoPublishLocal(topic, payload) ==
    /\ op' = Op("sdui_bus_publish_local", topic, payload, NULLCB, 0)
    /\ Commit(sdui_bus_publish_local(Fresh, topic, payload))
    /\ rx_calls' = <<>>
    /\ UNCHANGED <<subscribers, tvars>>

(***************************************************************************)
(* Transport operations and library events as steps                        *)
(***************************************************************************)
\* websocket_app_start, sdui_bus.c:189-204
websocket_app_start(cb) ==
    /\ client = NULLCLIENT
    /\ client' = "client"
    /\ global_rx_cb' = cb
    /\ link' = "connecting"
    /\ hist' = [disconnected |-> FALSE, reconnected |-> FALSE]
    /\ op' = Op("websocket_app_start", NULLSTR, NULLSTR, cb, 0)
    /\ Commit(Fresh)
    /\ rx_calls' = <<>>
    /\ UNCHANGED <<subscribers, is_connected, rx_buffer, rx_buffer_len,
                   fault, wire>>

\* websocket_app_stop, sdui_bus.c:218-226
websocket_app_stop ==
    /\ client # NULLCLIENT
    /\ client' = NULLCLIENT
    /\ is_connected' = FALSE
    /\ link' = "none"
    /\ wire' = IdleWire
    /\ op' = Op("websocket_app_stop", NULLSTR, NULLSTR, NULLCB, 0)
    /\ Commit(Fresh)
    /\ rx_calls' = <<>>
    /\ UNCHANGED <<subscribers, global_rx_cb, rx_buffer, rx_buffer_len,
                   fault, hist>>

\* The library connects and raises WEBSOCKET_EVENT_CONNECTED.
EvConnected ==
    /\ link = "connecting"
    /\ link' = "connected"
    /\ is_connected' = ConnectedAfter("WEBSOCKET_EVENT_CONNECTED", is_connected)
    /\ hist' = [hist EXCEPT !.reconnected = hist.disconnected]
    /\ op' = Op("WEBSOCKET_EVENT_CONNECTED", NULLSTR, NULLSTR, NULLCB, 0)
    /\ Commit(Fresh)
    /\ rx_calls' = <<>>
    /\ UNCHANGED <<subscribers, client, global_rx_cb, rx_buffer,
                   rx_buffer_len, fault, wire>>

\* The link drops, or a connection attempt fails:
\* WEBSOCKET_EVENT_DISCONNECTED.  A frame in flight is lost with the link.
EvDisconnected ==
    /\ link \in {"connecting", "connected"}
    /\ link' = "disconnected"
    /\ is_connected' = ConnectedAfter("WEBSOCKET_EVENT_DISCONNECTED", is_connected)
    /\ LET c == DisconnectCleanup(rx_buffer, rx_buffer_len)
       IN  rx_buffer' = c.buf /\ rx_buffer_len' = c.len
    /\ wire' = IF wire.state = "rx" THEN [wire EXCEPT !.state = "aborted"]
               ELSE wire
    /\ hist' = [hist EXCEPT !.disconnected = TRUE]
    /\ op' = Op("WEBSOCKET_EVENT_DISCONNECTED", NULLSTR, NULLSTR, NULLCB, 0)
    /\ Commit(Fresh)
    /\ rx_calls' = <<>>
    /\ UNCHANGED <<subscribers, client, global_rx_cb, fault>>

\* WEBSOCKET_EVENT_ERROR, sdui_bus.c:183-185: logged only.
EvError ==
    /\ link \in {"connecting", "connected"}
    /\ is_connected' = ConnectedAfter("WEBSOCKET_EVENT_ERROR", is_connected)
    /\ op' = Op("WEBSOCKET_EVENT_ERROR", NULLSTR, NULLSTR, NULLCB, 0)
    /\ Commit(Fresh)
    /\ rx_calls' = <<>>
    /\ UNCHANGED <<subscribers, client, global_rx_cb, rx_buffer,
                   rx_buffer_len, fault, link, wire, hist>>

\* The library's auto-reconnect (reconnect_timeout_ms, sdui_bus.c:195).
ReconnectTimer ==
    /\ link = "disconnected"
    /\ link' = "connecting"
    /\ op' = Op("reconnect_timer", NULLSTR, NULLSTR, NULLCB, 0)
    /\ Commit(Fresh)
    /\ rx_calls' = <<>>
    /\ UNCHANGED <<subscribers, client, global_rx_cb, is_connected, rx_buffer,
                   rx_buffer_len, fault, wire, hist>>

\* WEBSOCKET_EVENT_DATA for the next n bytes of frame w, which is at w.off.
DataEvent(w, n, allocOk) ==
    LET ev == [op_code |-> w.op_code,
               data |-> SubSeq(w.payload, w.off + 1, w.off + n),
               data_len |-> n,
               payload_offset |-> w.off,
               payload_len |-> Len(w.payload)]
    IN  \E r \in {OnData(ev, allocOk, FreshOf("websocket_task"))} :
        /\ rx_buffer' = r.buf
        /\ rx_buffer_len' = r.len
        /\ fault' = r.fault
        /\ rx_calls' = r.rx
        /\ Commit(r.st)
        /\ wire' = [w EXCEPT !.off = w.off + n,
                             !.state = IF w.off + n = Len(w.payload)
                                       THEN "done" ELSE "rx",
                             !.ok = IF w.off = 0 THEN allocOk ELSE w.ok,
                             !.got = w.got \o r.rx]
        /\ op' = Op("WEBSOCKET_EVENT_DATA", NULLSTR, ev.data, NULLCB, w.off)
        /\ UNCHANGED <<subscribers, client, global_rx_cb, is_connected,
                       link, hist>>

\* No byte of a occurs in b.
Disjoint(a, b) ==
    {a[i] : i \in 1..Len(a)} \cap {b[j] : j \in 1..Len(b)} = {}

\* The first chunk of a new frame; `after_abort`: the frame before it was
\* cut by a disconnect, `fresh`: and shares no byte with what had arrived.
EvDataFirst(frame, n, allocOk) ==
    /\ link = "connected"
    /\ wire.state # "rx"
    /\ n \in ChunkSizes(frame.payload, 0)
    /\ DataEvent([state |-> "rx", op_code |-> frame.op_code,
                  payload |-> frame.payload, off |-> 0, ok |-> FALSE,
                  got |-> <<>>, after_abort |-> wire.state = "aborted",
                  fresh |-> /\ wire.state = "aborted"
                            /\ wire.off > 0
                            /\ Disjoint(frame.payload,
                                        SubSeq(wire.payload, 1, wire.off))],
                 n, allocOk)

\* A further chunk of the frame in flight; while nothing has been received
\* the chunk is again at offset 0 and allocates again.
EvDataNext(n, allocOk) ==
    /\ link = "connected"
    /\ wire.state = "rx"
    /\ n \in ChunkSizes(wire.payload, wire.off)
    /\ wire.off = 0 \/ allocOk
    /\ DataEvent(wire, n, allocOk)

(***************************************************************************)
(* Texts used as inputs                                                    *)
(***************************************************************************)
W_update ==
    <<"{", QUOTE, "t", "o", "p", "i", "c", QUOTE, ":", QUOTE, "u", "i",
      "/", "u", "p", "d", "a", "t", "e", QUOTE, ",", QUOTE, "p", "a", "y",
      "l", "o", "a", "d", QUOTE, ":", QUOTE, "h", "i", QUOTE, "}">>

W_record_start ==
    <<"{", QUOTE, "t", "o", "p", "i", "c", QUOTE, ":", QUOTE, "a", "u",
      "d", "i", "o", "/", "c", "m", "d", "/", "r", "e", "c", "o", "r", "d",
      "_", "s", "t", "a", "r", "t", QUOTE, "}">>

W_garbage == <<"x", "y", "z">>

W_binary == <<"a", "b">>

P_shake == <<"{", QUOTE, "m", QUOTE, ":", "1", "}">>

P_id == <<"{", QUOTE, "i", "d", QUOTE, ":", QUOTE, "b", QUOTE, "}">>

S_hi == <<"h", "i">>

S_id == <<"i", "d">>

S_a == <<"a">>

S_n == <<"n">>

S_quoted == <<"a", QUOTE, "b">>

S_spaced == <<"x", " ", "y">>

S_hello == <<"h", "e", "l", "l", "o">>

J_hi == <<QUOTE, "h", "i", QUOTE>>

J_quoted == <<QUOTE, "a", BSLASH, QUOTE, "b", QUOTE>>

J_seven == <<"7">>

J_minus12 == <<"-", "1", "2">>

J_true == <<"t", "r", "u", "e">>

J_null == <<"n", "u", "l", "l">>

J_object ==
    <<"{", QUOTE, "i", "d", QUOTE, ":", QUOTE, "a", QUOTE, ",", QUOTE, "n",
      QUOTE, ":", "[", "1", ",", "f", "a", "l", "s", "e", "]", "}">>

J_object_ws ==
    <<"{", " ", QUOTE, "i", "d", QUOTE, " ", ":", " ", QUOTE, "a", QUOTE,
      ",", " ", QUOTE, "n", QUOTE, " ", ":", " ", "[", " ", "1", " ", ",",
      " ", "f", "a", "l", "s", "e", " ", "]", " ", "}">>

J_array == <<"[", QUOTE, "x", " ", "y", QUOTE, ",", "{", "}", "]">>

J_empty_array == <<"[", "]">>

J_empty_object == <<"{", "}">>

J_one == <<"1">>

R_reversed ==
    <<"{", " ", QUOTE, "p", "a", "y", "l", "o", "a", "d", QUOTE, " ", ":",
      " ", "[", "]", ",", " ", QUOTE, "t", "o", "p", "i", "c", QUOTE, " ",
      ":", " ", QUOTE, "u", "i", "/", "u", "p", "d", "a", "t", "e", QUOTE,
      " ", "}">>

R_nopayload ==
    <<"{", QUOTE, "t", "o", "p", "i", "c", QUOTE, ":", QUOTE, "u", "i",
      "/", "u", "p", "d", "a", "t", "e", QUOTE, "}">>

R_unterminated ==
    <<"{", QUOTE, "t", "o", "p", "i", "c", QUOTE, ":", QUOTE, "u", "i",
      "/", "u", "p", "d", "a", "t", "e", QUOTE>>

R_trailing ==
    <<"{", QUOTE, "t", "o", "p", "i", "c", QUOTE, ":", QUOTE, "u", "i",
      "/", "u", "p", "d", "a", "t", "e", QUOTE, ",", QUOTE, "p", "a", "y",
      "l", "o", "a", "d", QUOTE, ":", "1", "}", "x">>

R_notopic ==
    <<"{", QUOTE, "p", "a", "y", "l", "o", "a", "d", QUOTE, ":", "1", "}">>

R_topicnum ==
    <<"{", QUOTE, "t", "o", "p", "i", "c", QUOTE, ":", "7", ",", QUOTE,
      "p", "a", "y", "l", "o", "a", "d", QUOTE, ":", "1", "}">>

R_arrayroot ==
    <<"[", QUOTE, "t", "o", "p", "i", "c", QUOTE, ",", QUOTE, "u", "i",
      "/", "u", "p", "d", "a", "t", "e", QUOTE, "]">>

R_casekey ==
    <<"{", QUOTE, "T", "o", "p", "i", "c", QUOTE, ":", QUOTE, "u", "i",
      "/", "u", "p", "d", "a", "t", "e", QUOTE, ",", QUOTE, "p", "a", "y",
      "l", "o", "a", "d", QUOTE, ":", "1", "}">>

P_state_start ==
    <<"{", QUOTE, "s", "t", "a", "t", "e", QUOTE, ":", " ", QUOTE, "s",
      "t", "a", "r", "t", QUOTE, "}">>

P_twelve == <<"1", "2">>

P_trailing ==
    <<"{", QUOTE, "i", "d", QUOTE, ":", QUOTE, "a", QUOTE, "}", QUOTE, "}">>

P_onex == <<"1", "x">>

P_truncated == <<"{", QUOTE, "i", "d", QUOTE, ":", QUOTE, "a", QUOTE>>

P_ida == <<"{", QUOTE, "i", "d", QUOTE, ":", QUOTE, "a", QUOTE, "}">>

ENV_HEAD == <<"{", QUOTE, "t", "o", "p", "i", "c", QUOTE, ":">>

ENV_MID == <<",", QUOTE, "p", "a", "y", "l", "o", "a", "d", QUOTE, ":">>

RECURSIVE Repeat(_, _)
Repeat(c, n) == IF n = 0 THEN <<>> ELSE Append(Repeat(c, n - 1), c)

\* The longest topic a subscription record holds.
T_fits == Repeat("k", TOPIC_SIZE - 1)

\* A topic that a subscribed topic is a proper prefix of.
T_ui_updates == T_ui_update \o <<"s">>

\* The wire text of the envelope {topic: t, payload: <jtext>}.
Envelope(t, jtext) ==
    ENV_HEAD \o <<QUOTE>> \o t \o <<QUOTE>> \o ENV_MID \o jtext \o <<"}">>

\* The value of J_object and of J_object_ws.
V_object ==
    cJSON_Object(<<Keyed(S_id, cJSON_String(S_a)),
                   Keyed(S_n, cJSON_Array(<<cJSON_Number(1), cJSON_Bool(FALSE)>>))>>)

V_array == cJSON_Array(<<cJSON_String(S_spaced), cJSON_Object(<<>>)>>)

V_ida == cJSON_Object(<<Keyed(S_id, cJSON_String(S_a))>>)

V_state_start ==
    cJSON_Object(<<Keyed(<<"s", "t", "a", "t", "e">>,
                         cJSON_String(<<"s", "t", "a", "r", "t">>))>>)

RouteCase(raw, kind, t, J) == [raw |-> raw, kind |-> kind, t |-> t, J |-> J]

EnvelopeCase(t, jtext, J) == RouteCase(Envelope(t, jtext), "envelope", t, J)

\* Downlink texts: well-formed envelopes with the value their payload
\* denotes, then texts that are not envelopes.
RouteCases ==
    << EnvelopeCase(T_ui_update, J_hi, cJSON_String(S_hi)),
       EnvelopeCase(T_ui_update, J_quoted, cJSON_String(S_quoted)),
       EnvelopeCase(T_audio_play, J_seven, cJSON_Number(7)),
       EnvelopeCase(T_ui_update, J_minus12, cJSON_Number(0 - 12)),
       EnvelopeCase(T_ui_update, J_true, cJSON_Bool(TRUE)),
       EnvelopeCase(T_ui_update, J_null, cJSON_Null),
       EnvelopeCase(T_ui_update, J_object, V_object),
       EnvelopeCase(T_ui_update, J_object_ws, V_object),
       EnvelopeCase(T_ui_update, J_array, V_array),
       EnvelopeCase(T_ui_layout, J_empty_array, cJSON_Array(<<>>)),
       EnvelopeCase(T_record_start, J_empty_object, cJSON_Object(<<>>)),
       EnvelopeCase(T_fits, J_one, cJSON_Number(1)),
       EnvelopeCase(T_ui_updates, J_one, cJSON_Number(1)),
       RouteCase(R_reversed, "envelope", T_ui_update, cJSON_Array(<<>>)),
       RouteCase(R_nopayload, "no_payload", T_ui_update, NULLITEM),
       RouteCase(R_unterminated, "not_json", NULLSTR, NULLITEM),
       RouteCase(W_garbage, "not_json", NULLSTR, NULLITEM),
       RouteCase(R_trailing, "not_json", NULLSTR, NULLITEM),
       RouteCase(R_notopic, "no_string_topic", NULLSTR, NULLITEM),
       RouteCase(R_topicnum, "no_string_topic", NULLSTR, NULLITEM),
       RouteCase(R_arrayroot, "no_string_topic", NULLSTR, NULLITEM),
       RouteCase(R_casekey, "no_string_topic", NULLSTR, NULLITEM) >>

PublishCase(t, p, json, J) == [t |-> t, p |-> p, json |-> json, J |-> J]

\* Uplink publishes: the topic, the payload text, whether the payload is a
\* JSON text and, if so, the value it denotes.
PublishCases ==
    << PublishCase(T_motion, P_ida, TRUE, V_ida),
       PublishCase(T_audio_record, P_state_start, TRUE, V_state_start),
       PublishCase(T_motion, P_twelve, TRUE, cJSON_Number(12)),
       PublishCase(T_motion, J_hi, TRUE, cJSON_String(S_hi)),
       PublishCase(T_motion, J_true, TRUE, cJSON_Bool(TRUE)),
       PublishCase(T_motion, J_null, TRUE, cJSON_Null),
       PublishCase(S_quoted, J_array, TRUE, V_array),
       PublishCase(T_motion, S_hello, FALSE, NULLITEM),
       PublishCase(T_motion, <<>>, FALSE, NULLITEM),
       PublishCase(T_motion, S_quoted, FALSE, NULLITEM),
       PublishCase(T_motion, P_truncated, FALSE, NULLITEM),
       PublishCase(T_motion, P_trailing, FALSE, NULLITEM),
       PublishCase(T_motion, P_onex, FALSE, NULLITEM) >>

\* Local publishes: <<topic, payload>>.
LocalCases ==
    { <<T_ui_update, S_hi>>, <<T_ui_update, NULLSTR>>, <<T_ui_layout, P_id>>,
      <<T_record_start, P_id>>, <<T_record_stop, P_id>>, <<T_fits, S_hi>>,
      <<T_ui_updates, S_hi>>, <<NULLSTR, S_hi>> }

Callbacks ==
    {"on_ui_layout", "on_ui_update", "on_audio_record_start",
     "on_audio_record_stop", "audio_play_callback"}

\* Subscriptions the bus is driven with: <<topic, callback>>.
SubPairs ==
    { <<T_ui_update, "on_ui_update">>, <<T_ui_update, "on_ui_layout">>,
      <<T_record_start, "on_audio_record_start">>, <<T_fits, NULLCB>> }

\* audio_manager.c:201
FillPair == <<T_audio_play, "audio_play_callback">>

\* The table is filled with FillPair until VariedSubs records are left; the
\* subscriptions after that, those past the capacity included, are any of
\* SubPairs.
VariedSubs == 2

SubscribeInputs ==
    IF sub_count < MAX_SUBSCRIBERS - VariedSubs THEN {FillPair} ELSE SubPairs

\* Frames the server sends: the op code and the payload.
Frames ==
    { [op_code |-> OP_TEXT, payload |-> W_update],
      [op_code |-> OP_TEXT, payload |-> W_record_start],
      [op_code |-> OP_CONT, payload |-> W_garbage],
      [op_code |-> OP_TEXT, payload |-> <<>>],
      [op_code |-> 2, payload |-> W_binary] }

\* Publishes of the running tasks: <<topic, payload>>.
TaskPublishes == { <<T_motion, P_shake>> }

\* Local publishes of the UI's local:// actions.
UiLocalPublishes == { <<T_record_start, P_id>>, <<T_record_stop, P_id>> }

(***************************************************************************)
(* app_main, main.c:91-126, from sdui_bus_init on                          *)
(***************************************************************************)
\* The subscriptions of main.c:112-117 with ui/update made first.
BootSubs_UpdateFirst ==
    [ subscribe_ui_layout |->
          [topic |-> T_ui_update, cb |-> "on_ui_update",
           next |-> "subscribe_ui_update"],
      subscribe_ui_update |->
          [topic |-> T_ui_layout, cb |-> "on_ui_layout",
           next |-> "subscribe_record_start"],
      subscribe_record_start |->
          [topic |-> T_record_start, cb |-> "on_audio_record_start",
           next |-> "subscribe_record_stop"],
      subscribe_record_stop |->
          [topic |-> T_record_stop, cb |-> "on_audio_record_stop",
           next |-> "wifi_init_sta"] ]

\* main.c:112-117: the subscription made at each position and the next one.
BootSubs ==
    [ subscribe_ui_layout |->
          [topic |-> T_ui_layout, cb |-> "on_ui_layout",
           next |-> "subscribe_ui_update"],
      subscribe_ui_update |->
          [topic |-> T_ui_update, cb |-> "on_ui_update",
           next |-> "subscribe_record_start"],
      subscribe_record_start |->
          [topic |-> T_record_start, cb |-> "on_audio_record_start",
           next |-> "subscribe_record_stop"],
      subscribe_record_stop |->
          [topic |-> T_record_stop, cb |-> "on_audio_record_stop",
           next |-> "wifi_init_sta"] ]

\* main.c:106
BootBusInit ==
    /\ pc = "sdui_bus_init"
    /\ DoBusInit
    /\ pc' = "audio_app_start"

\* main.c:109; audio_app_start subscribes audio/play, audio_manager.c:201
BootAudioStart ==
    /\ pc = "audio_app_start"
    /\ DoSubscribe(T_audio_play, "audio_play_callback")
    /\ pc' = "subscribe_ui_layout"

BootSubscribe ==
    /\ pc \in DOMAIN BootSubs
    /\ DoSubscribe(BootSubs[pc].topic, BootSubs[pc].cb)
    /\ pc' = BootSubs[pc].next

\* main.c:120-121
BootWifi ==
    /\ pc = "wifi_init_sta"
    /\ pc' = "websocket_app_start"
    /\ op' = Op("wifi_init_sta", NULLSTR, NULLSTR, NULLCB, 0)
    /\ Commit(Fresh)
    /\ rx_calls' = <<>>
    /\ UNCHANGED <<subscribers, tvars>>

\* main.c:124
BootWsStart ==
    /\ pc = "websocket_app_start"
    /\ websocket_app_start("sdui_bus_route_down")
    /\ pc' = "imu_app_start"

\* main.c:125
BootImuStart ==
    /\ pc = "imu_app_start"
    /\ pc' = "run"
    /\ op' = Op("imu_app_start", NULLSTR, NULLSTR, NULLCB, 0)
    /\ Commit(Fresh)
    /\ rx_calls' = <<>>
    /\ UNCHANGED <<subscribers, tvars>>

(***************************************************************************)
(* Steps of the running system and of the directly driven bus              *)
(***************************************************************************)
Running == pc \in {"run", "api"}

Connected == EvConnected /\ UNCHANGED pc

Disconnected == EvDisconnected /\ UNCHANGED pc

Error == EvError /\ UNCHANGED pc

Reconnect == ReconnectTimer /\ UNCHANGED pc

DataFirst ==
    \E frame \in Frames, allocOk \in BOOLEAN :
        \E n \in ChunkSizes(frame.payload, 0) :
            EvDataFirst(frame, n, allocOk) /\ UNCHANGED pc

DataNext ==
    \E n \in ChunkSizes(wire.payload, wire.off), allocOk \in BOOLEAN :
        EvDataNext(n, allocOk) /\ UNCHANGED pc

Stop == Running /\ websocket_app_stop /\ UNCHANGED pc

Start == Running /\ websocket_app_start("sdui_bus_route_down") /\ UNCHANGED pc

TaskPublishUp ==
    /\ pc = "run"
    /\ \E tp \in TaskPublishes : DoPublishUp(tp[1], tp[2], 0)
    /\ UNCHANGED pc

UiPublishLocal ==
    /\ pc = "run"
    /\ \E tp \in UiLocalPublishes : DoPublishLocal(tp[1], tp[2])
    /\ UNCHANGED pc

BusInit == pc = "api" /\ DoBusInit /\ UNCHANGED pc

Subscribe ==
    /\ pc = "api"
    /\ \E tc \in SubscribeInputs : DoSubscribe(tc[1], tc[2])
    /\ UNCHANGED pc

RouteDown ==
    /\ pc = "api"
    /\ \E i \in 1..Len(RouteCases) : DoRouteDown(RouteCases[i].raw, i)
    /\ UNCHANGED pc

PublishUp ==
    /\ pc = "api"
    /\ \E i \in 1..Len(PublishCases) :
          DoPublishUp(PublishCases[i].t, PublishCases[i].p, i)
    /\ UNCHANGED pc

PublishLocal ==
    /\ pc = "api"
    /\ \E tp \in LocalCases : DoPublishLocal(tp[1], tp[2])
    /\ UNCHANGED pc

\* The firmware from app_main on: boot, then the transport's events, the
\* tasks' publishes and the UI's local publishes.
Next ==
    \/ BootBusInit
    \/ BootAudioStart
    \/ BootSubscribe
    \/ BootWifi
    \/ BootWsStart
    \/ BootImuStart
    \/ Connected
    \/ Disconnected
    \/ Error
    \/ Reconnect
    \/ DataFirst
    \/ DataNext
    \/ Stop
    \/ Start
    \/ TaskPublishUp
    \/ UiPublishLocal

Spec == Init /\ [][Next]_vars

\* The bus driven through its interface, over a transport that is started,
\* connects and is stopped.
NextBus ==
    \/ BusInit
    \/ Subscribe
    \/ RouteDown
    \/ PublishUp
    \/ PublishLocal
    \/ Start
    \/ Connected
    \/ Stop

SpecBus == InitBus /\ [][NextBus]_vars


(***************************************************************************)
(* Layouts, updates and values used as inputs of the parser                *)
(***************************************************************************)
L_panel ==
    <<"[", "{", QUOTE, "t", "y", "p", "e", QUOTE, ":", QUOTE, "l", "a",
      "b", "e", "l", QUOTE, ",", QUOTE, "i", "d", QUOTE, ":", QUOTE, "a",
      QUOTE, ",", QUOTE, "t", "e", "x", "t", QUOTE, ":", QUOTE, "h", "i",
      QUOTE, "}", ",", "{", QUOTE, "t", "y", "p", "e", QUOTE, ":", QUOTE,
      "b", "u", "t", "t", "o", "n", QUOTE, ",", QUOTE, "i", "d", QUOTE,
      ":", QUOTE, "b", QUOTE, ",", QUOTE, "t", "e", "x", "t", QUOTE, ":",
      QUOTE, "G", "o", QUOTE, ",", QUOTE, "o", "n", "_", "c", "l", "i",
      "c", "k", QUOTE, ":", QUOTE, "s", "e", "r", "v", "e", "r", ":", "/",
      "/", "u", "i", "/", "a", "c", "t", "i", "o", "n", QUOTE, ",", QUOTE,
      "o", "n", "_", "p", "r", "e", "s", "s", QUOTE, ":", QUOTE, "l", "o",
      "c", "a", "l", ":", "/", "/", "a", "u", "d", "i", "o", "/", "c", "m",
      "d", "/", "r", "e", "c", "o", "r", "d", "_", "s", "t", "a", "r", "t",
      QUOTE, ",", QUOTE, "o", "n", "_", "r", "e", "l", "e", "a", "s", "e",
      QUOTE, ":", QUOTE, "l", "o", "c", "a", "l", ":", "/", "/", "a", "u",
      "d", "i", "o", "/", "c", "m", "d", "/", "r", "e", "c", "o", "r", "d",
      "_", "s", "t", "o", "p", QUOTE, "}", "]">>

L_spins ==
    <<"{", QUOTE, "o", "p", "a", QUOTE, ":", "9", ",", QUOTE, "c", "h",
      "i", "l", "d", "r", "e", "n", QUOTE, ":", "[", "{", QUOTE, "t", "y",
      "p", "e", QUOTE, ":", QUOTE, "c", "o", "n", "t", "a", "i", "n", "e",
      "r", QUOTE, ",", QUOTE, "i", "d", QUOTE, ":", QUOTE, "c", QUOTE, ",",
      QUOTE, "c", "h", "i", "l", "d", "r", "e", "n", QUOTE, ":", "[", "{",
      QUOTE, "t", "y", "p", "e", QUOTE, ":", QUOTE, "l", "a", "b", "e",
      "l", QUOTE, ",", QUOTE, "i", "d", QUOTE, ":", QUOTE, "n", QUOTE, ",",
      QUOTE, "a", "n", "i", "m", QUOTE, ":", "{", QUOTE, "t", "y", "p",
      "e", QUOTE, ":", QUOTE, "s", "p", "i", "n", QUOTE, "}", "}", ",",
      "{", QUOTE, "t", "y", "p", "e", QUOTE, ":", QUOTE, "i", "m", "a",
      "g", "e", QUOTE, ",", QUOTE, "i", "d", QUOTE, ":", QUOTE, "j", QUOTE,
      ",", QUOTE, "a", "n", "i", "m", QUOTE, ":", "{", QUOTE, "t", "y",
      "p", "e", QUOTE, ":", QUOTE, "s", "p", "i", "n", QUOTE, "}", "}",
      ",", "{", QUOTE, "t", "y", "p", "e", QUOTE, ":", QUOTE, "i", "m",
      "a", "g", "e", QUOTE, ",", QUOTE, "i", "d", QUOTE, ":", QUOTE, "k",
      QUOTE, ",", QUOTE, "a", "n", "i", "m", QUOTE, ":", "{", QUOTE, "t",
      "y", "p", "e", QUOTE, ":", QUOTE, "s", "p", "i", "n", QUOTE, "}",
      "}", ",", "{", QUOTE, "t", "y", "p", "e", QUOTE, ":", QUOTE, "i",
      "m", "a", "g", "e", QUOTE, ",", QUOTE, "i", "d", QUOTE, ":", QUOTE,
      "m", QUOTE, ",", QUOTE, "a", "n", "i", "m", QUOTE, ":", "{", QUOTE,
      "t", "y", "p", "e", QUOTE, ":", QUOTE, "s", "p", "i", "n", QUOTE,
      "}", "}", "]", "}", "]", "}">>

L_owned ==
    <<"[", "{", QUOTE, "t", "y", "p", "e", QUOTE, ":", QUOTE, "c", "o",
      "n", "t", "a", "i", "n", "e", "r", QUOTE, ",", QUOTE, "i", "d",
      QUOTE, ":", QUOTE, "c", QUOTE, ",", QUOTE, "c", "h", "i", "l", "d",
      "r", "e", "n", QUOTE, ":", "[", "{", QUOTE, "t", "y", "p", "e",
      QUOTE, ":", QUOTE, "p", "a", "r", "t", "i", "c", "l", "e", QUOTE,
      ",", QUOTE, "i", "d", QUOTE, ":", QUOTE, "p", QUOTE, "}", ",", "{",
      QUOTE, "t", "y", "p", "e", QUOTE, ":", QUOTE, "i", "m", "a", "g",
      "e", QUOTE, ",", QUOTE, "i", "d", QUOTE, ":", QUOTE, "i", QUOTE, ",",
      QUOTE, "s", "r", "c", QUOTE, ":", QUOTE, "Q", "U", "J", "D", QUOTE,
      ",", QUOTE, "i", "m", "g", "_", "w", QUOTE, ":", "1", ",", QUOTE,
      "i", "m", "g", "_", "h", QUOTE, ":", "1", "}", ",", "{", QUOTE, "t",
      "y", "p", "e", QUOTE, ":", QUOTE, "s", "l", "i", "d", "e", "r",
      QUOTE, ",", QUOTE, "i", "d", QUOTE, ":", QUOTE, "s", QUOTE, ",",
      QUOTE, "o", "n", "_", "c", "h", "a", "n", "g", "e", QUOTE, ":",
      QUOTE, "g", "o", QUOTE, ",", QUOTE, "v", "a", "l", "u", "e", QUOTE,
      ":", "5", "}", "]", "}", "]">>

L_clicks ==
    <<"[", "{", QUOTE, "t", "y", "p", "e", QUOTE, ":", QUOTE, "b", "u",
      "t", "t", "o", "n", QUOTE, ",", QUOTE, "i", "d", QUOTE, ":", QUOTE,
      "b", QUOTE, ",", QUOTE, "o", "n", "_", "c", "l", "i", "c", "k",
      QUOTE, ":", QUOTE, QUOTE, "}", ",", "{", QUOTE, "t", "y", "p", "e",
      QUOTE, ":", QUOTE, "b", "u", "t", "t", "o", "n", QUOTE, ",", QUOTE,
      "i", "d", QUOTE, ":", QUOTE, "d", QUOTE, ",", QUOTE, "o", "n", "_",
      "c", "l", "i", "c", "k", QUOTE, ":", QUOTE, "g", "o", QUOTE, "}",
      ",", "{", QUOTE, "t", "y", "p", "e", QUOTE, ":", QUOTE, "b", "u",
      "t", "t", "o", "n", QUOTE, ",", QUOTE, "o", "n", "_", "c", "l", "i",
      "c", "k", QUOTE, ":", QUOTE, "g", "o", QUOTE, ",", QUOTE, "o", "n",
      "_", "p", "r", "e", "s", "s", QUOTE, ":", "7", "}", "]">>

L_skipped ==
    <<"[", "{", QUOTE, "t", "y", "p", "e", QUOTE, ":", QUOTE, "g", "a",
      "u", "g", "e", QUOTE, ",", QUOTE, "i", "d", QUOTE, ":", QUOTE, "g",
      QUOTE, ",", QUOTE, "c", "h", "i", "l", "d", "r", "e", "n", QUOTE,
      ":", "[", "{", QUOTE, "t", "y", "p", "e", QUOTE, ":", QUOTE, "l",
      "a", "b", "e", "l", QUOTE, ",", QUOTE, "i", "d", QUOTE, ":", QUOTE,
      "a", QUOTE, "}", "]", "}", ",", "{", QUOTE, "i", "d", QUOTE, ":",
      QUOTE, "n", QUOTE, "}", ",", "{", QUOTE, "t", "y", "p", "e", QUOTE,
      ":", QUOTE, "l", "a", "b", "e", "l", QUOTE, ",", QUOTE, "i", "d",
      QUOTE, ":", "7", "}", ",", "{", QUOTE, "t", "y", "p", "e", QUOTE,
      ":", QUOTE, "b", "a", "r", QUOTE, ",", QUOTE, "i", "d", QUOTE, ":",
      QUOTE, "v", QUOTE, ",", QUOTE, "v", "a", "l", "u", "e", QUOTE, ":",
      "3", "}", "]">>

L_single ==
    <<"{", QUOTE, "t", "y", "p", "e", QUOTE, ":", QUOTE, "l", "a", "b",
      "e", "l", QUOTE, ",", QUOTE, "i", "d", QUOTE, ":", QUOTE, "t", QUOTE,
      ",", QUOTE, "t", "e", "x", "t", QUOTE, ":", QUOTE, "x", QUOTE, ",",
      QUOTE, "h", "i", "d", "d", "e", "n", QUOTE, ":", "t", "r", "u", "e",
      "}">>

L_truncated ==
    <<"[", "{", QUOTE, "t", "y", "p", "e", QUOTE, ":", QUOTE, "l", "a",
      "b", "e", "l", QUOTE, ",", QUOTE, "i", "d", QUOTE, ":", QUOTE, "a",
      QUOTE, "}">>

L_trailing ==
    <<"[", "{", QUOTE, "t", "y", "p", "e", QUOTE, ":", QUOTE, "l", "a",
      "b", "e", "l", QUOTE, ",", QUOTE, "i", "d", QUOTE, ":", QUOTE, "t",
      QUOTE, "}", "]", "x">>

L_fill ==
    <<"{", QUOTE, "t", "y", "p", "e", QUOTE, ":", QUOTE, "b", "a", "r",
      QUOTE, ",", QUOTE, "i", "d", QUOTE, ":", QUOTE, "f", QUOTE, "}", ",">>

L_group_head ==
    <<"{", QUOTE, "t", "y", "p", "e", QUOTE, ":", QUOTE, "c", "o", "n",
      "t", "a", "i", "n", "e", "r", QUOTE, ",", QUOTE, "i", "d", QUOTE,
      ":", QUOTE, "f", QUOTE, ",", QUOTE, "c", "h", "i", "l", "d", "r",
      "e", "n", QUOTE, ":", "[">>

L_group_tail ==
    <<"{", QUOTE, "t", "y", "p", "e", QUOTE, ":", QUOTE, "b", "a", "r",
      QUOTE, ",", QUOTE, "i", "d", QUOTE, ":", QUOTE, "f", QUOTE, "}", "]",
      "}", ",">>

L_last ==
    <<"{", QUOTE, "t", "y", "p", "e", QUOTE, ":", QUOTE, "b", "a", "r",
      QUOTE, ",", QUOTE, "i", "d", QUOTE, ":", QUOTE, "y", QUOTE, "}", ",",
      "{", QUOTE, "t", "y", "p", "e", QUOTE, ":", QUOTE, "b", "a", "r",
      QUOTE, ",", QUOTE, "i", "d", QUOTE, ":", QUOTE, "z", QUOTE, "}", "]">>

U_text ==
    <<"{", QUOTE, "i", "d", QUOTE, ":", QUOTE, "a", QUOTE, ",", QUOTE, "t",
      "e", "x", "t", QUOTE, ":", QUOTE, "1", QUOTE, ",", QUOTE, "h", "i",
      "d", "d", "e", "n", QUOTE, ":", "t", "r", "u", "e", ",", QUOTE, "b",
      "g", "_", "c", "o", "l", "o", "r", QUOTE, ":", QUOTE, "#", "f", "0",
      "0", QUOTE, ",", QUOTE, "o", "p", "a", QUOTE, ":", "3", "0", "0", "}">>

U_value ==
    <<"{", QUOTE, "i", "d", QUOTE, ":", QUOTE, "v", QUOTE, ",", QUOTE, "v",
      "a", "l", "u", "e", QUOTE, ":", "8", "}">>

U_unknown ==
    <<"{", QUOTE, "i", "d", QUOTE, ":", QUOTE, "q", QUOTE, ",", QUOTE, "t",
      "e", "x", "t", QUOTE, ":", QUOTE, "1", QUOTE, ",", QUOTE, "h", "i",
      "d", "d", "e", "n", QUOTE, ":", "t", "r", "u", "e", "}">>

U_noid ==
    <<"{", QUOTE, "t", "e", "x", "t", QUOTE, ":", QUOTE, "1", QUOTE, ",",
      QUOTE, "h", "i", "d", "d", "e", "n", QUOTE, ":", "t", "r", "u", "e",
      ",", QUOTE, "a", "n", "i", "m", QUOTE, ":", "{", QUOTE, "t", "y",
      "p", "e", QUOTE, ":", QUOTE, "s", "p", "i", "n", QUOTE, "}", "}">>

U_numid ==
    <<"{", QUOTE, "i", "d", QUOTE, ":", "7", ",", QUOTE, "t", "e", "x",
      "t", QUOTE, ":", QUOTE, "1", QUOTE, "}">>

U_truncated ==
    <<"{", QUOTE, "i", "d", QUOTE, ":", QUOTE, "a", QUOTE, ",", QUOTE, "t",
      "e", "x", "t", QUOTE, ":", QUOTE, "1", QUOTE>>

U_trailing ==
    <<"{", QUOTE, "i", "d", QUOTE, ":", QUOTE, "a", QUOTE, ",", QUOTE, "t",
      "e", "x", "t", QUOTE, ":", QUOTE, "1", QUOTE, ",", QUOTE, "h", "i",
      "d", "d", "e", "n", QUOTE, ":", "t", "r", "u", "e", ",", QUOTE, "b",
      "g", "_", "c", "o", "l", "o", "r", QUOTE, ":", QUOTE, "#", "f", "0",
      "0", QUOTE, ",", QUOTE, "o", "p", "a", QUOTE, ":", "3", "0", "0",
      "}", "x">>

U_casekey ==
    <<"{", QUOTE, "I", "D", QUOTE, ":", QUOTE, "a", QUOTE, ",", QUOTE, "t",
      "e", "x", "t", QUOTE, ":", QUOTE, "1", QUOTE, ",", QUOTE, "h", "i",
      "d", "d", "e", "n", QUOTE, ":", "t", "r", "u", "e", ",", QUOTE, "b",
      "g", "_", "c", "o", "l", "o", "r", QUOTE, ":", QUOTE, "#", "f", "0",
      "0", QUOTE, ",", QUOTE, "o", "p", "a", QUOTE, ":", "3", "0", "0", "}">>

U_spin_i ==
    <<"{", QUOTE, "i", "d", QUOTE, ":", QUOTE, "i", QUOTE, ",", QUOTE, "a",
      "n", "i", "m", QUOTE, ":", "{", QUOTE, "t", "y", "p", "e", QUOTE,
      ":", QUOTE, "s", "p", "i", "n", QUOTE, "}", "}">>

U_pulse ==
    <<"{", QUOTE, "i", "d", QUOTE, ":", QUOTE, "v", QUOTE, ",", QUOTE, "a",
      "n", "i", "m", QUOTE, ":", "{", QUOTE, "t", "y", "p", "e", QUOTE,
      ":", QUOTE, "c", "o", "l", "o", "r", "_", "p", "u", "l", "s", "e",
      QUOTE, "}", "}">>

U_y ==
    <<"{", QUOTE, "i", "d", QUOTE, ":", QUOTE, "y", QUOTE, ",", QUOTE, "v",
      "a", "l", "u", "e", QUOTE, ":", "1", "}">>

U_z ==
    <<"{", QUOTE, "i", "d", QUOTE, ":", QUOTE, "z", QUOTE, ",", QUOTE, "v",
      "a", "l", "u", "e", QUOTE, ":", "1", "}">>

ID_a == <<"a">>

ID_b == <<"b">>

ID_d == <<"d">>

ID_y == <<"y">>

ID_z == <<"z">>

ID_f == <<"f">>

URI_go == <<"g", "o">>

URI_server_action ==
    <<"s", "e", "r", "v", "e", "r", ":", "/", "/", "u", "i", "/", "a", "c",
      "t", "i", "o", "n">>

URI_local_start ==
    <<"l", "o", "c", "a", "l", ":", "/", "/", "a", "u", "d", "i", "o", "/",
      "c", "m", "d", "/", "r", "e", "c", "o", "r", "d", "_", "s", "t", "a",
      "r", "t">>

URI_local_stop ==
    <<"l", "o", "c", "a", "l", ":", "/", "/", "a", "u", "d", "i", "o", "/",
      "c", "m", "d", "/", "r", "e", "c", "o", "r", "d", "_", "s", "t", "o",
      "p">>

(***************************************************************************)
(* The parser driven through its interface: layouts and updates as the     *)
(* server sends them, LVGL's input events and its animation timer, over    *)
(* the bus table app_main builds.                                          *)
(***************************************************************************)
Times(text, n) ==
    [i \in 1..(n * Len(text)) |-> text[((i - 1) % Len(text)) + 1]]

\* A container with eight bars: nine nodes with the id f.
L_group == L_group_head \o Times(L_fill, 7) \o L_group_tail

\* One node with an id more than the registry holds: the id f on 63 nodes,
\* then y and z.
L_many == <<"[">> \o Times(L_group, (MAX_ID_ENTRIES - 1) \div 9) \o L_last

\* A layout and the allocations of its render that may fail (0: none).
LayoutCase(text, fails) == [text |-> text, fails |-> fails]

LayoutCases ==
    << LayoutCase(L_panel, {0, 1}),
       LayoutCase(L_spins, {0}),
       LayoutCase(L_owned, 0..AllocsOwned),
       LayoutCase(L_clicks, {0}),
       LayoutCase(L_skipped, {0}),
       LayoutCase(L_single, {0}),
       LayoutCase(L_truncated, {0}),
       LayoutCase(L_trailing, {0}),
       LayoutCase(L_many, {0}),
       LayoutCase(NULLSTR, {0}) >>

UpdateCases ==
    << U_text, U_value, U_unknown, U_noid, U_numid, U_truncated, U_trailing,
       U_casekey, U_spin_i, U_pulse, U_y, U_z, NULLSTR >>

\* LVGL's input events on a widget.
InputCodes ==
    {"LV_EVENT_CLICKED", "LV_EVENT_PRESSED", "LV_EVENT_RELEASED",
     "LV_EVENT_PRESS_LOST", "LV_EVENT_FOCUSED"}

\* main.c:109-117: the subscriptions of app_main, in order.
MainSubscriptions ==
    << <<T_audio_play, "audio_play_callback">>,
       <<T_ui_layout, "on_ui_layout">>,
       <<T_ui_update, "on_ui_update">>,
       <<T_record_start, "on_audio_record_start">>,
       <<T_record_stop, "on_audio_record_stop">> >>

RECURSIVE SubscribeAll(_, _, _)
SubscribeAll(subs, pairs, i) ==
    IF i > Len(pairs) THEN subs
    ELSE SubscribeAll(sdui_bus_subscribe(subs, pairs[i][1], pairs[i][2]),
                      pairs, i + 1)

InitUi ==
    /\ InitTransport
    /\ subscribers = SubscribeAll(<<>>, MainSubscriptions, 1)
    /\ UiIs(BootedUi)
    /\ pc = "ui"

\* Blocks no object owns any more.
Orphans == {p \in DOMAIN lv_heap : lv_heap[p].owner = NULLOBJ}

Pulses == {p \in DOMAIN lv_heap : lv_heap[p].kind = "color_anim_data_t"}

DoRender(json_str, n, k) ==
    /\ op' = Op("sdui_parser_render", NULLSTR, json_str, NULLCB, n)
    /\ Commit(sdui_parser_render(
                  [Fresh EXCEPT !.alloc_fail = k, !.lv_log.fail = k], json_str))
    /\ rx_calls' = <<>>
    /\ UNCHANGED <<subscribers, tvars>>

DoUpdate(json_str, n) ==
    /\ op' = Op("sdui_parser_update", NULLSTR, json_str, NULLCB, n)
    /\ Commit(sdui_parser_update(Fresh, json_str))
    /\ rx_calls' = <<>>
    /\ UNCHANGED <<subscribers, tvars>>

\* The input device raises an event on a widget of the tree.
DoEvent(obj, code) ==
    /\ op' = Op("lv_obj_send_event", NULLSTR, NULLSTR, code, obj)
    /\ Commit(lv_obj_send_event(Fresh, obj, code))
    /\ rx_calls' = <<>>
    /\ UNCHANGED <<subscribers, tvars>>

\* The widgets that listen to input events.
Listening ==
    {h \in 1..Len(lv_objs) :
        \E i \in 1..Len(lv_objs[h].cbs) :
            lv_objs[h].cbs[i].filter # "LV_EVENT_DELETE"}

\* The run is followed while fewer than MaxOrphans blocks are left without
\* an owner.
Followed == pc = "ui" /\ Cardinality(Orphans) < MaxOrphans

Render ==
    /\ Followed
    /\ \E i \in 1..Len(LayoutCases) :
          \E k \in LayoutCases[i].fails : DoRender(LayoutCases[i].text, i, k)
    /\ UNCHANGED pc

Update ==
    /\ Followed
    /\ \E i \in 1..Len(UpdateCases) :
          /\ UpdateCases[i] = U_pulse => Cardinality(Pulses) < MaxPulses
          /\ DoUpdate(UpdateCases[i], i)
    /\ UNCHANGED pc

Event ==
    /\ Followed
    /\ \E obj \in Listening, code \in InputCodes : DoEvent(obj, code)
    /\ UNCHANGED pc

NextUi ==
    \/ Render
    \/ Update
    \/ Event

SpecUi == InitUi /\ [][NextUi]_vars

(***************************************************************************)
(* sdui_parser_init called on an engine that has rendered                   *)
(***************************************************************************)
\* The root views created so far are followed up to this many.
MaxRoots == 3

\* The objects sdui_parser_init created on the screen.
Roots == {h \in DOMAIN lv_objs : lv_objs[h].parent = NULLOBJ}

InitLayouts == {L_spins, L_single}

InitUpdates == {U_text, U_spin_i}

ReinitRender ==
    /\ pc = "reinit"
    /\ \E l \in InitLayouts : DoRender(l, 0, 0)
    /\ UNCHANGED pc

ReinitUpdate ==
    /\ pc = "reinit"
    /\ \E u \in InitUpdates : DoUpdate(u, 0)
    /\ UNCHANGED pc

\* sdui_parser_init is called again.
ParserInit ==
    /\ pc = "reinit" /\ Cardinality(Roots) < MaxRoots
    /\ op' = Op("sdui_parser_init", NULLSTR, NULLSTR, NULLCB, 0)
    /\ Commit(sdui_parser_init(FreshOf("app_main")))
    /\ rx_calls' = <<>>
    /\ UNCHANGED <<pc, subscribers, tvars>>

InitReinit ==
    /\ InitTransport
    /\ subscribers = SubscribeAll(<<>>, MainSubscriptions, 1)
    /\ UiIs(BootedUi)
    /\ pc = "reinit"

NextReinit ==
    \/ ReinitRender
    \/ ReinitUpdate
    \/ ParserInit

SpecReinit == InitReinit /\ [][NextReinit]_vars

(***************************************************************************)
(* apply_anim over the animation types and the repeat member                *)
(***************************************************************************)
\* ,"repeat":<text>
RepeatMember(text) == <<",", QUOTE>> \o K_repeat \o <<QUOTE, ":">> \o text

\* The repeat members of the inputs: the text, whether the value is a
\* number, and the integer part of that number.
AnimRepeats ==
    << [text |-> <<>>, number |-> FALSE, int |-> 0],
       [text |-> RepeatMember(<<QUOTE, "3", QUOTE>>), number |-> FALSE,
        int |-> 0],
       [text |-> RepeatMember(<<"-", "1">>), number |-> TRUE, int |-> 0 - 1],
       [text |-> RepeatMember(<<"0">>), number |-> TRUE, int |-> 0],
       [text |-> RepeatMember(<<"3">>), number |-> TRUE, int |-> 3],
       [text |-> RepeatMember(<<"-", "0", ".", "5">>), number |-> TRUE,
        int |-> 0],
       [text |-> RepeatMember(<<"2", ".", "5">>), number |-> TRUE,
        int |-> 2] >>

\* The animation types whose repeat count comes from the repeat member.
RepeatTypes == {AT_blink, AT_breathe, AT_spin, AT_color_pulse}

AnimWidgets == {WT_label, WT_image}

\* "anim":{"type":"<atype>"<repeat>}
AnimMember(atype, repeat) ==
    <<QUOTE>> \o K_anim \o <<QUOTE, ":", "{", QUOTE>> \o K_type
        \o <<QUOTE, ":", QUOTE>> \o atype \o <<QUOTE>> \o repeat \o <<"}">>

\* {"type":"<widget>","id":"a",<anim>}
AnimLayout(widget, anim) ==
    <<"{", QUOTE>> \o K_type \o <<QUOTE, ":", QUOTE>> \o widget
        \o <<QUOTE, ",", QUOTE>> \o K_id \o <<QUOTE, ":", QUOTE>> \o S_a
        \o <<QUOTE, ",">> \o anim \o <<"}">>

\* A layout of one animated widget is rendered.
AnimRender ==
    /\ pc = "anim"
    /\ \E w \in AnimWidgets, t \in RepeatTypes, i \in DOMAIN AnimRepeats :
          /\ op' = Op("sdui_parser_render", t,
                      AnimLayout(w, AnimMember(t, AnimRepeats[i].text)),
                      NULLCB, i)
          /\ Commit(sdui_parser_render(Fresh,
                  AnimLayout(w, AnimMember(t, AnimRepeats[i].text))))
    /\ rx_calls' = <<>>
    /\ UNCHANGED <<pc, subscribers, tvars>>

InitAnim ==
    /\ InitTransport
    /\ subscribers = SubscribeAll(<<>>, MainSubscriptions, 1)
    /\ UiIs(BootedUi)
    /\ pc = "anim"

NextAnim == AnimRender

SpecAnim == InitAnim /\ [][NextAnim]_vars

(***************************************************************************)
(* sdui_parser_update with a text, over the kinds of target                 *)
(***************************************************************************)
\* ,"text":"<text>"
TextMember(text) ==
    <<",", QUOTE>> \o K_text \o <<QUOTE, ":", QUOTE>> \o text \o <<QUOTE>>

\* ,"children":[{"type":"<type>"}]
ChildMember(type) ==
    <<",", QUOTE>> \o K_children \o <<QUOTE, ":", "[", "{", QUOTE>> \o K_type
        \o <<QUOTE, ":", QUOTE>> \o type \o <<QUOTE, "}", "]">>

\* {"type":"<type>","id":"a"<members>}
TargetLayout(type, members) ==
    <<"{", QUOTE>> \o K_type \o <<QUOTE, ":", QUOTE>> \o type
        \o <<QUOTE, ",", QUOTE>> \o K_id \o <<QUOTE, ":", QUOTE>> \o S_a
        \o <<QUOTE>> \o members \o <<"}">>

\* The layouts whose widget "a" is the target: a label, a button with and
\* without text, a container without children, with a label and with an
\* image as first child, an image, a bar, a slider and a particle widget.
TargetLayouts ==
    {TargetLayout(WT_label, TextMember(S_a)),
     TargetLayout(WT_button, TextMember(S_a)),
     TargetLayout(WT_button, <<>>),
     TargetLayout(WT_container, <<>>),
     TargetLayout(WT_container, ChildMember(WT_label)),
     TargetLayout(WT_container, ChildMember(WT_image)),
     TargetLayout(WT_image, <<>>),
     TargetLayout(WT_bar, <<>>),
     TargetLayout(WT_slider, <<>>),
     TargetLayout(WT_particle, <<>>)}

\* {"id":"a","text":"<text>"}
TextUpdate(text) ==
    <<"{", QUOTE>> \o K_id \o <<QUOTE, ":", QUOTE>> \o S_a \o <<QUOTE>>
        \o TextMember(text) \o <<"}">>

NewTexts == {<<>>, <<"x">>, <<"y">>, <<"y", "z">>, <<"1", "2", "3">>}

\* lv_label_set_text on an object that is no label is undefined: LVGL's
\* object assertion halts the firmware, or the call writes through the
\* object as if it were a label.
LabelOutcomes == {"halts", "writes"}

TextSet(st, outcome) ==
    IF /\ st.lv_log.labelled # 0
       /\ st.lv_objs[st.lv_log.labelled].class # "lv_label"
       /\ outcome = "halts"
    THEN [st EXCEPT !.lv_objs[st.lv_log.labelled].text = <<>>,
                    !.lv_log.halted = TRUE]
    ELSE st

TextRender ==
    /\ pc = "text" /\ ~lv_log.halted
    /\ \E l \in TargetLayouts : DoRender(l, 0, 0)
    /\ UNCHANGED pc

TextUpdated ==
    /\ pc = "text" /\ ~lv_log.halted
    /\ \E t \in NewTexts, outcome \in LabelOutcomes :
          /\ op' = Op("sdui_parser_update", NULLSTR, TextUpdate(t), NULLCB, 0)
          /\ Commit(TextSet(sdui_parser_update(Fresh, TextUpdate(t)),
                            outcome))
    /\ rx_calls' = <<>>
    /\ UNCHANGED <<pc, subscribers, tvars>>

InitText ==
    /\ InitTransport
    /\ subscribers = SubscribeAll(<<>>, MainSubscriptions, 1)
    /\ UiIs(BootedUi)
    /\ pc = "text"

NextText ==
    \/ TextRender
    \/ TextUpdated

SpecText == InitText /\ [][NextText]_vars

(***************************************************************************)
(* A slider and its on_change URI                                           *)
(***************************************************************************)
\* ,"on_change":"<uri>"
ChangeMember(uri) ==
    <<",", QUOTE>> \o K_on_change \o <<QUOTE, ":", QUOTE>> \o uri
        \o <<QUOTE>>

\* ,"value":<digits>
ValueMember(digits) ==
    <<",", QUOTE>> \o K_value \o <<QUOTE, ":">> \o digits

\* The on_change members of the inputs: none, the empty URI, a local://
\* URI, a server:// URI and a URI without scheme.
ChangeMembers ==
    {<<>>, ChangeMember(<<>>), ChangeMember(URI_local_start),
     ChangeMember(URI_server_action), ChangeMember(URI_go)}

SliderValues == {<<"0">>, <<"7">>, <<"4", "2">>}

SliderRender ==
    /\ pc = "slider"
    /\ \E c \in ChangeMembers, v \in SliderValues :
          DoRender(TargetLayout(WT_slider, ValueMember(v) \o c), 0, 0)
    /\ UNCHANGED pc

Sliders == {h \in 1..Len(lv_objs) : lv_objs[h].class = "lv_slider"}

\* The input device raises an event on a slider, with or without on_change.
SliderEvent ==
    /\ pc = "slider"
    /\ \E obj \in Sliders, code \in InputCodes : DoEvent(obj, code)
    /\ UNCHANGED pc

InitSlider ==
    /\ InitTransport
    /\ subscribers = SubscribeAll(<<>>, MainSubscriptions, 1)
    /\ UiIs(BootedUi)
    /\ pc = "slider"

NextSlider ==
    \/ SliderRender
    \/ SliderEvent

SpecSlider == InitSlider /\ [][NextSlider]_vars

(***************************************************************************)
(* Renders one after the other                                              *)
(***************************************************************************)
\* {<members>"children":[{"type":"label","id":"a"}]}: an object with an
\* array of children, whose members style the root view.
RootLayout(members) ==
    <<"{">> \o members \o <<QUOTE>> \o K_children \o <<QUOTE, ":", "[">>
        \o TargetLayout(WT_label, <<>>) \o <<"]", "}">>

\* "hidden":true,
HiddenMember == <<QUOTE>> \o K_hidden \o <<QUOTE, ":", "t", "r", "u", "e", ",">>

\* "bg_color":"#f00",
BgColorMember ==
    <<QUOTE>> \o K_bg_color \o <<QUOTE, ":", QUOTE, "#", "f", "0", "0", QUOTE,
                                 ",">>

\* "opa":30,
OpaMember == <<QUOTE>> \o K_opa \o <<QUOTE, ":", "3", "0", ",">>

HistoryLayouts ==
    {RootLayout(<<>>), RootLayout(HiddenMember), RootLayout(BgColorMember),
     RootLayout(OpaMember), RootLayout(HiddenMember \o BgColorMember),
     L_single, L_spins, TargetLayout(WT_button, TextMember(S_a))}

HistoryRender ==
    /\ pc = "history"
    /\ \E l \in HistoryLayouts : DoRender(l, 0, 0)
    /\ UNCHANGED pc

HistoryUpdate ==
    /\ pc = "history"
    /\ \E t \in NewTexts : DoUpdate(TextUpdate(t), 0)
    /\ UNCHANGED pc

InitHistory ==
    /\ InitTransport
    /\ subscribers = SubscribeAll(<<>>, MainSubscriptions, 1)
    /\ UiIs(BootedUi)
    /\ pc = "history"

NextHistory ==
    \/ HistoryRender
    \/ HistoryUpdate

SpecHistory == InitHistory /\ [][NextHistory]_vars

(***************************************************************************)
(* Hold-to-talk: the LVGL task in audio_record_start / audio_record_stop   *)
(* and audio_record_task, audio_manager.c:75-147, step by step.  The two   *)
(* tasks share the flag is_recording and the uplink; a step is one access  *)
(* to the flag or one call of sdui_bus_publish_up.                         *)
(***************************************************************************)
\* A chunk of PCM samples in Base64, audio_manager.c:110-111.
B64_chunk == <<"A", "A", "A", "A">>

\* snprintf(json_buf, 2048, "{\"state\": \"stream\", \"data\": \"%s\"}", ...)
STATE_STREAM(base64_buf) ==
    <<"{", QUOTE, "s", "t", "a", "t", "e", QUOTE, ":", " ", QUOTE, "s", "t",
      "r", "e", "a", "m", QUOTE, ",", " ", QUOTE, "d", "a", "t", "a", QUOTE,
      ":", " ", QUOTE>> \o base64_buf \o <<QUOTE, "}">>

\* The stream frames counted after a control frame stop at MaxStreams.
MaxStreams == 3

\* The summary of the audio/record publishes after one more of them.
Published1(u, kind) ==
    IF kind = "stream"
    THEN [u EXCEPT !.streams = IF @ < MaxStreams THEN @ + 1 ELSE @]
    ELSE [last |-> kind, streams |-> 0]

\* audio_manager.c:131-136: the statements of audio_record_start in order.
StartOrder_SetFirst == <<"start_test", "start_set", "start_publish", "idle">>

StartOrder == <<"start_test", "start_publish", "start_set", "idle">>

\* audio_manager.c:141-146: the statements of audio_record_stop in order.
StopOrder_PublishFirst == <<"stop_test", "stop_publish", "stop_clear", "idle">>

StopOrder == <<"stop_test", "stop_clear", "stop_publish", "idle">>

\* The statement after `at` in a function whose statements are `order`.
After(order, at) ==
    order[(CHOOSE i \in 1..(Len(order) - 1) : order[i] = at) + 1]

AudioStep(name, st) ==
    /\ op' = Op(name, NULLSTR, NULLSTR, NULLCB, 0)
    /\ Commit(st)
    /\ rx_calls' = <<>>
    /\ UNCHANGED <<pc, subscribers, tvars>>

\* on_press of the talk button: action_event_cb, dispatch_action,
\* sdui_bus_publish_local and on_audio_record_start lead to
\* audio_record_start, whose test of the flag is audio_manager.c:131.
UiPress ==
    /\ pc = "tasks" /\ ui_task = "idle"
    /\ AudioStep("audio_record_start",
                 [Fresh EXCEPT !.ui_task = IF ~is_recording
                                           THEN After(StartOrder, "start_test")
                                           ELSE "idle"])

\* audio_manager.c:133
UiStartPublish ==
    /\ pc = "tasks" /\ ui_task = "start_publish"
    /\ AudioStep("audio_record_start",
                 sdui_bus_publish_up(
                     [Fresh EXCEPT !.ui_task = After(StartOrder, "start_publish"),
                                   !.uplink = Published1(uplink, "start")],
                     T_audio_record, STATE_START, "audio_record_start"))

\* audio_manager.c:135
UiStartSet ==
    /\ pc = "tasks" /\ ui_task = "start_set"
    /\ AudioStep("audio_record_start",
                 [Fresh EXCEPT !.ui_task = After(StartOrder, "start_set"),
                               !.is_recording = TRUE])

\* on_release of the talk button, up to the test at audio_manager.c:141.
UiRelease ==
    /\ pc = "tasks" /\ ui_task = "idle"
    /\ AudioStep("audio_record_stop",
                 [Fresh EXCEPT !.ui_task = IF is_recording
                                           THEN After(StopOrder, "stop_test")
                                           ELSE "idle"])

\* audio_manager.c:143
UiStopClear ==
    /\ pc = "tasks" /\ ui_task = "stop_clear"
    /\ AudioStep("audio_record_stop",
                 [Fresh EXCEPT !.ui_task = After(StopOrder, "stop_clear"),
                               !.is_recording = FALSE])

\* audio_manager.c:145
UiStopPublish ==
    /\ pc = "tasks" /\ ui_task = "stop_publish"
    /\ AudioStep("audio_record_stop",
                 sdui_bus_publish_up(
                     [Fresh EXCEPT !.ui_task = After(StopOrder, "stop_publish"),
                                   !.uplink = Published1(uplink, "stop")],
                     T_audio_record, STATE_STOP, "audio_record_stop"))

\* audio_manager.c:100: the task exists only when mic_handle is not NULL
\* (audio_manager.c:175-185), so the flag alone decides.
RecordTest ==
    /\ pc = "tasks" /\ record_task = "test"
    /\ AudioStep("audio_record_task",
                 [Fresh EXCEPT !.record_task = IF is_recording THEN "read"
                                               ELSE "delay"])

\* audio_manager.c:102-104: esp_codec_dev_read returns a chunk or an error.
RecordRead ==
    /\ pc = "tasks" /\ record_task = "read"
    /\ \E ret \in {"ESP_OK", "ESP_FAIL"} :
          AudioStep("esp_codec_dev_read",
                    [Fresh EXCEPT !.record_task = IF ret = "ESP_OK"
                                                  THEN "publish" ELSE "delay"])

\* audio_manager.c:109-114
RecordPublish ==
    /\ pc = "tasks" /\ record_task = "publish"
    /\ AudioStep("audio_record_task",
                 sdui_bus_publish_up(
                     [Fresh EXCEPT !.record_task = "test",
                                   !.uplink = Published1(uplink, "stream")],
                     T_audio_record, STATE_STREAM(B64_chunk),
                     "audio_record_task"))

\* audio_manager.c:119 and :124: vTaskDelay, then the loop's next turn.
RecordDelay ==
    /\ pc = "tasks" /\ record_task = "delay"
    /\ AudioStep("vTaskDelay", [Fresh EXCEPT !.record_task = "test"])

\* The tasks of a booted device: main.c:109 has started audio_record_task
\* and main.c:112-117 has made the subscriptions.
InitAudio ==
    /\ InitTransport
    /\ subscribers = SubscribeAll(<<>>, MainSubscriptions, 1)
    /\ UiIs(BootedUi)
    /\ pc = "tasks"

\* main.c:124
TasksWsStart ==
    /\ pc = "tasks"
    /\ websocket_app_start("sdui_bus_route_down")
    /\ UNCHANGED pc

NextAudio ==
    \/ UiPress
    \/ UiStartPublish
    \/ UiStartSet
    \/ UiRelease
    \/ UiStopClear
    \/ UiStopPublish
    \/ RecordTest
    \/ RecordRead
    \/ RecordPublish
    \/ RecordDelay
    \/ TasksWsStart
    \/ Connected
    \/ Disconnected
    \/ Reconnect

SpecAudio == InitAudio /\ [][NextAudio]_vars

(***************************************************************************)
(* The particle widget: its construction from a layout, the ticks of its   *)
(* LVGL timer and the recording flag.  Timers and input events run on the  *)
(* LVGL task, so a tick and a call of audio_record_start or _stop are each *)
(* one step.                                                               *)
(***************************************************************************)
CanvasValues == {0 - 300, 0, 200, 201, 400}

CountValues == {0 - 1, 31}

\* ,"<key>":<v>
NumberMember(key, v) ==
    <<",", QUOTE>> \o key \o <<QUOTE, ":">> \o print_number(v)

\* A member with each of the values, or no such member.
MemberTexts(key, values) == {<<>>} \cup {NumberMember(key, v) : v \in values}

\* {"type":"particle"<members>}
ParticleLayout(members) ==
    <<"{", QUOTE>> \o K_type \o <<QUOTE, ":", QUOTE>> \o WT_particle
        \o <<QUOTE>> \o members \o <<"}">>

\* The particle data whose timer runs.
Timers == {p \in DOMAIN lv_heap : lv_heap[p].timer}

InitParticle ==
    /\ InitTransport
    /\ subscribers = SubscribeAll(<<>>, MainSubscriptions, 1)
    /\ UiIs(BootedUi)
    /\ pc = "particle"

\* A ui/layout frame with one particle node, while no particle timer runs.
ParticleRender ==
    /\ pc = "particle" /\ Timers = {}
    /\ \E w \in MemberTexts(K_canvas_w, CanvasValues),
          h \in MemberTexts(K_canvas_h, CanvasValues),
          c \in MemberTexts(K_count, CountValues) :
          DoRender(ParticleLayout(w \o h \o c), 0, 0)
    /\ UNCHANGED pc

\* lv_timer_handler runs the timer of a particle widget.
ParticleTick ==
    /\ pc = "particle"
    /\ \E pd \in Timers :
          /\ op' = Op("particle_timer_cb", NULLSTR, NULLSTR, NULLCB, pd)
          /\ Commit(particle_timer_cb(Fresh, pd))
    /\ rx_calls' = <<>>
    /\ UNCHANGED <<pc, subscribers, tvars>>

\* The talk button's local://audio/cmd/record_start and .../record_stop.
ParticleRecord ==
    /\ pc = "particle"
    /\ \E tp \in UiLocalPublishes : DoPublishLocal(tp[1], tp[2])
    /\ UNCHANGED pc

NextParticle ==
    \/ ParticleRender
    \/ ParticleTick
    \/ ParticleRecord

SpecParticle == InitParticle /\ [][NextParticle]_vars

(***************************************************************************)
(* LVGL's animation timer over the animations the parser started            *)
(***************************************************************************)
\* anim_opa_exec_cb, anim_translate_x_exec_cb, anim_translate_y_exec_cb,
\* anim_rotation_exec_cb (sdui_parser.h:493-504): var is the object.
\* `executed`: the callback, the memory it read and the object it wrote.
anim_obj_exec_cb(st, a) ==
    [st EXCEPT !.lv_log.executed =
        Append(@, [cb |-> a.exec_cb, mem |-> NULLPTR, freed |-> FALSE,
                   obj |-> a.var_obj])]

\* anim_color_exec_cb (sdui_parser.h:505-510): var is the state struct, the
\* object is read from it.  Read from a freed struct, cad->obj is whatever
\* the heap holds there: `found` stands for it.
anim_color_exec_cb(st, a, found) ==
    IF /\ a.var_mem \in DOMAIN st.lv_heap
       /\ st.lv_heap[a.var_mem].kind = "color_anim_data_t"
    THEN [st EXCEPT !.lv_log.executed =
             Append(@, [cb |-> a.exec_cb, mem |-> a.var_mem,
                        freed |-> FALSE,
                        obj |-> st.lv_heap[a.var_mem].owner])]
    ELSE [st EXCEPT !.lv_log.executed =
             Append(@, [cb |-> a.exec_cb, mem |-> a.var_mem,
                        freed |-> TRUE, obj |-> found])]

anim_exec(st, a, found) ==
    IF a.exec_cb = "anim_color_exec_cb"
    THEN anim_color_exec_cb(st, a, found)
    ELSE anim_obj_exec_cb(st, a)

\* The animation types the parser starts a timer-driven animation for.
ExecTypes ==
    {AT_blink, AT_breathe, AT_spin, AT_slide_in, AT_shake, AT_color_pulse}

ExecLayouts ==
    {AnimLayout(WT_image, AnimMember(t, <<>>)) : t \in ExecTypes}
        \cup {AnimLayout(WT_label, AnimMember(AT_color_pulse, <<>>)),
              ParticleLayout(<<>>), L_single}

ExecRender ==
    /\ pc = "exec"
    /\ \E l \in ExecLayouts : DoRender(l, 0, 0)
    /\ UNCHANGED pc

\* lv_timer_handler runs one step of a running animation.
AnimExec ==
    /\ pc = "exec"
    /\ \E a \in lv_anims, found \in 0..Len(lv_objs) :
          /\ op' = Op("lv_anim_timer", NULLSTR, NULLSTR, a.exec_cb, 0)
          /\ Commit(anim_exec(Fresh, a, found))
    /\ rx_calls' = <<>>
    /\ UNCHANGED <<pc, subscribers, tvars>>

\* lv_timer_handler runs the timer of a particle widget.
ExecParticleTick ==
    /\ pc = "exec"
    /\ \E pd \in Timers :
          /\ op' = Op("particle_timer_cb", NULLSTR, NULLSTR, NULLCB, pd)
          /\ Commit(particle_timer_cb(Fresh, pd))
    /\ rx_calls' = <<>>
    /\ UNCHANGED <<pc, subscribers, tvars>>

InitExec ==
    /\ InitTransport
    /\ subscribers = SubscribeAll(<<>>, MainSubscriptions, 1)
    /\ UiIs(BootedUi)
    /\ pc = "exec"

NextExec ==
    \/ ExecRender
    \/ AnimExec
    \/ ExecParticleTick

SpecExec == InitExec /\ [][NextExec]_vars

(***************************************************************************)
(* imu_polling_task, main.c:144-202.  A magnitude is kept in hundredths of *)
(* a m/s^2, the two decimals "%.2f" prints.                                *)
(***************************************************************************)
\* main.c:184: 14.7f
SHAKE_THRESHOLD == 1470

\* main.c:195
SHAKE_COOLDOWN == 10

\* The polls counted after a motion publish stop at MaxPolled.
MaxPolled == 12

Magnitudes == {980, 1470, 1471, 1600}

\* What one turn of the loop finds: no data ready, a read error, a sample.
Polls ==
    { [ready |-> FALSE, ok |-> FALSE, mag |-> 0],
      [ready |-> TRUE, ok |-> FALSE, mag |-> 0] }
        \cup { [ready |-> TRUE, ok |-> TRUE, mag |-> m] : m \in Magnitudes }

\* snprintf(json_payload, ..., "{\"type\": \"shake\", \"magnitude\": %.2f}", ...)
ShakePayload(mag) ==
    <<"{", QUOTE, "t", "y", "p", "e", QUOTE, ":", " ", QUOTE, "s", "h", "a",
      "k", "e", QUOTE, ",", " ", QUOTE, "m", "a", "g", "n", "i", "t", "u", "d",
      "e", QUOTE, ":", " ">>
        \o DecimalDigits(mag \div 100)
        \o <<".", Digits[((mag \div 10) % 10) + 1], Digits[(mag % 10) + 1], "}">>

\* main.c:179-181
CooledDown(cooldown) == IF cooldown > 0 THEN cooldown - 1 ELSE cooldown

\* main.c:184
ShakeDetected(mag, cooldown) == mag > SHAKE_THRESHOLD /\ cooldown = 0

\* main.c:179-196, for a sample that was read
ImuSample(st, mag, cooldown) ==
    IF ShakeDetected(mag, cooldown)
    THEN sdui_bus_publish_up(
             [st EXCEPT !.shake_cooldown = SHAKE_COOLDOWN,
                        !.motion = [any |-> TRUE, polled |-> 0]],
             T_motion, ShakePayload(mag), "imu_polling_task")
    ELSE [st EXCEPT !.shake_cooldown = cooldown,
                    !.motion.polled = IF @ < MaxPolled THEN @ + 1 ELSE @]

\* main.c:167-200: one turn of the loop
imu_poll(st, poll) ==
    IF poll.ready /\ poll.ok
    THEN ImuSample(st, poll.mag, CooledDown(st.shake_cooldown))
    ELSE st

ImuPoll ==
    /\ pc = "tasks"
    /\ \E poll \in Polls :
          /\ op' = Op("imu_polling_task", NULLSTR, NULLSTR,
                      IF ~poll.ready THEN "not_ready"
                      ELSE IF ~poll.ok THEN "read_error" ELSE "sample",
                      poll.mag)
          /\ Commit(imu_poll(Fresh, poll))
    /\ rx_calls' = <<>>
    /\ UNCHANGED <<pc, subscribers, tvars>>

NextImu ==
    \/ ImuPoll
    \/ TasksWsStart
    \/ Connected
    \/ Disconnected
    \/ Reconnect

SpecImu == InitAudio /\ [][NextImu]_vars

(***************************************************************************)
(* The screen-sleep timer, the display's activity and the downlink          *)
(***************************************************************************)
SCREEN_SLEEP_TIMEOUT_MS == 30000

\* The period of the timer created in app_main.
SLEEP_TIMER_PERIOD_MS == 500

\* The inactivity time is followed this far; beyond it nothing differs.
MaxInactive == 31000

bsp_display_brightness_set(st, percent) == [st EXCEPT !.backlight = percent]

ScreenSleeps(st) ==
    IF st.is_screen_sleeping THEN st
    ELSE [bsp_display_brightness_set(st, 0) EXCEPT !.is_screen_sleeping = TRUE]

ScreenWakes(st) ==
    IF ~st.is_screen_sleeping THEN st
    ELSE [bsp_display_brightness_set(st, 100)
              EXCEPT !.is_screen_sleeping = FALSE]

screen_sleep_timer_cb(st) ==
    IF st.inactive_time > SCREEN_SLEEP_TIMEOUT_MS
    THEN ScreenSleeps(st)
    ELSE ScreenWakes(st)

\* A period of the timer has passed without activity.
PeriodPassed(st) ==
    [st EXCEPT !.inactive_time =
         IF @ + SLEEP_TIMER_PERIOD_MS > MaxInactive THEN @
         ELSE @ + SLEEP_TIMER_PERIOD_MS]

\* A frame that has a topic and no payload member.
TopicOnly(t) == ENV_HEAD \o <<QUOTE>> \o t \o <<QUOTE, "}">>

ScreenFrames ==
    {Envelope(T_ui_layout, L_single), Envelope(T_ui_update, U_text),
     TopicOnly(T_ui_layout), TopicOnly(T_ui_update),
     Envelope(T_motion, P_twelve)}

\* The frames of ScreenFrames for ui/layout and ui/update.
UiFrames == ScreenFrames \ {Envelope(T_motion, P_twelve)}

\* Those that carry a payload.
UiPayloadFrames ==
    {Envelope(T_ui_layout, L_single), Envelope(T_ui_update, U_text)}

\* The LVGL task runs the timer, every 500 ms, under the UI lock.
ScreenTick ==
    /\ pc = "screen"
    /\ op' = Op("screen_sleep_timer_cb", NULLSTR, NULLSTR, NULLCB, 0)
    /\ Commit(bsp_display_unlock(screen_sleep_timer_cb(
                  bsp_display_lock(PeriodPassed(FreshOf("lvgl_task"))))))
    /\ rx_calls' = <<>>
    /\ UNCHANGED <<pc, subscribers, tvars>>

\* The user touches the screen: LVGL records the activity.
ScreenTouch ==
    /\ pc = "screen"
    /\ op' = Op("touch", NULLSTR, NULLSTR, NULLCB, 0)
    /\ Commit(lv_disp_trig_activity(FreshOf("lvgl_task")))
    /\ rx_calls' = <<>>
    /\ UNCHANGED <<pc, subscribers, tvars>>

\* The transport's task hands a frame to sdui_bus_route_down.
ScreenDownlink ==
    /\ pc = "screen"
    /\ \E f \in ScreenFrames :
           /\ op' = Op("sdui_bus_route_down", NULLSTR, f, NULLCB, 0)
           /\ Commit(sdui_bus_route_down(FreshOf("websocket_task"), f))
    /\ rx_calls' = <<>>
    /\ UNCHANGED <<pc, subscribers, tvars>>

InitScreen ==
    /\ InitTransport
    /\ subscribers = SubscribeAll(<<>>, MainSubscriptions, 1)
    /\ UiIs(BootedUi)
    /\ pc = "screen"

NextScreen ==
    \/ ScreenTick
    \/ ScreenTouch
    \/ ScreenDownlink

SpecScreen == InitScreen /\ [][NextScreen]_vars

(***************************************************************************)
(* app_main with the provisioning branch, README.md:437-510, and the       *)
(* provisioning form of wifi_manager.c. Writes to the NVS succeed.         *)
(***************************************************************************)
wifi_manager_is_provisioned_AnyLength(ssid) == ssid # NULLSTR

\* wifi_manager_is_provisioned, wifi_manager.c:306-326: the stored ssid is
\* read and its length, the terminator included, is above 1.
wifi_manager_is_provisioned(ssid) == ssid # NULLSTR /\ Len(ssid) + 1 > 1

\* A label with the given text is created in parent.
Labelled(st, parent, text) ==
    [lv_obj_create(st, "lv_label", parent) EXCEPT
         !.lv_objs[Len(st.lv_objs) + 1].text = text]

ProvisioningLabels(st, container) ==
    Labelled(Labelled(Labelled(Labelled(Labelled(Labelled(st, container,
        <<"W", "i", "-", "F", "i", " ", "S", "e", "t", "u", "p">>), container,
        <<"1", ".", " ", "C", "o", "n", "n", "e", "c", "t", " ", "W", "i",
                "-", "F", "i", ":">>), container,
        <<"S", "D", "U", "I", "-", "S", "e", "t", "u", "p">>), container,
        <<"P", "W", "D", ":", " ", "1", "2", "3", "4", "5", "6", "7", "8">>), container,
        <<"2", ".", " ", "B", "r", "o", "w", "s", "e", "r", " ", "t", "o",
                ":">>), container,
        <<"1", "9", "2", ".", "1", "6", "8", ".", "4", ".", "1">>)

ProvisioningContainer(st) == ProvisioningLabels(st, st.ret)

\* README.md:386-435
build_provisioning_screen(st) ==
    IF st.s_root_view = NULLOBJ THEN Ran(st, "build_provisioning_screen")
    ELSE ProvisioningContainer(
             lv_obj_create(lv_obj_clean(Ran(st, "build_provisioning_screen"),
                                        st.s_root_view),
                           "lv_obj", st.s_root_view))

\* Texts the provisioning form submits as ssid.
FormSsids == {<<>>, S_home, S_a}

\* What the NVS may hold when the device is switched on: no ssid, an empty
\* one, a network's name.
StoredSsids == {NULLSTR, <<>>, S_home}

\* The positions of app_main on the provisioning branch.
ProvisioningPath == {"provisioning_screen", "start_provision", "provision_wait"}

\* The positions of app_main on the provisioned path, in order.
ProvisionedPath ==
    <<"loading_screen", "sdui_bus_init", "audio_app_start",
      "subscribe_ui_layout", "subscribe_ui_update", "subscribe_record_start",
      "subscribe_record_stop", "wifi_init_sta", "websocket_app_start",
      "imu_app_start", "telemetry_app_start", "run">>

\* A step of app_main that leaves the bus and the transport alone.
MainStep(name, next, st) ==
    /\ pc' = next
    /\ op' = Op(name, NULLSTR, NULLSTR, NULLCB, 0)
    /\ Commit(st)
    /\ rx_calls' = <<>>
    /\ UNCHANGED <<subscribers, tvars>>

\* README.md:440
BootDisplayStart ==
    /\ pc = "bsp_display_start"
    /\ MainStep("bsp_display_start", "sdui_parser_init",
                bsp_display_brightness_set(FreshOf("app_main"), 100))

\* README.md:443-448
BootParserInit ==
    /\ pc = "sdui_parser_init"
    /\ MainStep("sdui_parser_init", "is_provisioned",
                bsp_display_unlock(sdui_parser_init(
                    bsp_display_lock(FreshOf("app_main")))))

\* README.md:451-453
BootProvisionCheck ==
    /\ pc = "is_provisioned"
    /\ MainStep("wifi_manager_is_provisioned",
                IF wifi_manager_is_provisioned(nvs_ssid)
                THEN "loading_screen" ELSE "provisioning_screen",
                FreshOf("app_main"))

\* README.md:457-459
BootProvisioningScreen ==
    /\ pc = "provisioning_screen"
    /\ MainStep("build_provisioning_screen", "start_provision",
                bsp_display_unlock(build_provisioning_screen(
                    bsp_display_lock(FreshOf("app_main")))))

\* README.md:462-467: provisioning is started and app_main delays for ever.
BootStartProvision ==
    /\ pc = "start_provision"
    /\ MainStep("wifi_manager_start_provision", "provision_wait",
                FreshOf("app_main"))

\* esp_restart: the RAM is as after power-on; the NVS keeps what it holds.
Restarted(st) ==
    [st EXCEPT !.is_recording = FALSE, !.heap = 0,
               !.s_root_view = NULLOBJ, !.lv_objs = <<>>,
               !.s_id_table = <<>>, !.s_spin_count = 0, !.lv_anims = {},
               !.lv_heap = <<>>, !.ui_task = "idle", !.record_task = "test",
               !.uplink = [last |-> "none", streams |-> 0],
               !.shake_cooldown = 0,
               !.motion = [any |-> FALSE, polled |-> 0],
               !.ui_lock = Unlocked, !.inactive_time = 0,
               !.is_screen_sleeping = FALSE, !.backlight = 100,
               !.sender = Returned, !.tx_ready = TRUE,
               !.rx_task = Delivered]

\* save_config_to_nvs, wifi_manager.c:73-89
save_config_to_nvs(st, ssid) == [st EXCEPT !.nvs_ssid = ssid]

\* save_post_handler, wifi_manager.c:167-231, for a form whose ssid field
\* decodes to ssid: a non-empty ssid is stored and the device restarts, an
\* empty one is answered with status 500.
FormSubmit ==
    /\ pc = "provision_wait"
    /\ \E ssid \in FormSsids :
          /\ op' = Op("save_post_handler", NULLSTR, ssid, NULLCB, 0)
          /\ IF Len(ssid) > 0
             THEN /\ Commit(Restarted(save_config_to_nvs(FreshOf("httpd"),
                                                         ssid)))
                  /\ pc' = "bsp_display_start"
                  /\ subscribers' = <<>>
                  /\ client' = NULLCLIENT
                  /\ global_rx_cb' = NULLCB
                  /\ is_connected' = FALSE
                  /\ rx_buffer' = NULLBUF
                  /\ rx_buffer_len' = 0
                  /\ fault' = FALSE
                  /\ link' = "none"
                  /\ wire' = IdleWire
                  /\ hist' = [disconnected |-> FALSE, reconnected |-> FALSE]
             ELSE /\ Commit(FreshOf("httpd"))
                  /\ UNCHANGED <<pc, subscribers, tvars>>
    /\ rx_calls' = <<>>

\* README.md:473-475
BootLoadingScreen ==
    /\ pc = "loading_screen"
    /\ MainStep("build_loading_screen", "sdui_bus_init",
                bsp_display_unlock(build_loading_screen(
                    bsp_display_lock(FreshOf("app_main")))))

\* README.md:505
ImuAppStart ==
    /\ pc = "imu_app_start"
    /\ MainStep("imu_app_start", "telemetry_app_start", FreshOf("app_main"))

\* README.md:509
TelemetryAppStart ==
    /\ pc = "telemetry_app_start"
    /\ MainStep("telemetry_app_start", "run", FreshOf("app_main"))

\* The frames the server sends in SpecBoot.
BootFrames ==
    { [op_code |-> OP_TEXT, payload |-> W_update],
      [op_code |-> OP_TEXT, payload |-> Envelope(T_ui_layout, L_single)],
      [op_code |-> OP_TEXT, payload |-> TopicOnly(T_ui_update)] }

BootDataFirst ==
    \E frame \in BootFrames, allocOk \in BOOLEAN :
        \E n \in ChunkSizes(frame.payload, 0) :
            EvDataFirst(frame, n, allocOk) /\ UNCHANGED pc

InitBoot ==
    /\ InitRam
    /\ nvs_ssid \in StoredSsids
    /\ subscribers = <<>>
    /\ UiIs(ZeroUi)
    /\ pc = "bsp_display_start"

NextBoot ==
    \/ BootDisplayStart
    \/ BootParserInit
    \/ BootProvisionCheck
    \/ BootProvisioningScreen
    \/ BootStartProvision
    \/ FormSubmit
    \/ BootLoadingScreen
    \/ BootBusInit
    \/ BootAudioStart
    \/ BootSubscribe
    \/ BootWifi
    \/ BootWsStart
    \/ ImuAppStart
    \/ TelemetryAppStart
    \/ Connected
    \/ Disconnected
    \/ Reconnect
    \/ BootDataFirst
    \/ DataNext

SpecBoot == InitBoot /\ [][NextBoot]_vars

(***************************************************************************)
(* websocket_send_json and the library's send, sdui_bus.c:206-216          *)
(***************************************************************************)
\* websocket_send_json as a call that may not return in the step it is
\* made in.
SendJson(st, payload, by) == websocket_send_json(st, payload, by)

\* The texts handed to websocket_send_json.
SendTexts == {NULLSTR, P_shake, P_id}

\* A task calls websocket_send_json.
SendCall ==
    /\ pc = "api" /\ sender = Returned
    /\ \E payload \in SendTexts :
          /\ op' = Op("websocket_send_json", NULLSTR, payload, NULLCB, 0)
          /\ Commit(SendJson(FreshOf("task"), payload, "task"))
    /\ rx_calls' = <<>>
    /\ UNCHANGED <<pc, subscribers, tvars>>

\* The library has become able to take the frame, and the waiting call
\* writes it and returns; or the link is gone, and the call returns with
\* nothing written.
SendTextReturns ==
    /\ pc = "api" /\ sender # Returned
    /\ tx_ready \/ link # "connected"
    /\ op' = Op("esp_websocket_client_send_text", NULLSTR, sender.payload,
                NULLCB, 0)
    /\ Commit([FreshOf("task") EXCEPT
                  !.lib_tx = IF link = "connected"
                             THEN Append(@, sender.payload) ELSE @,
                  !.sender = Returned])
    /\ rx_calls' = <<>>
    /\ UNCHANGED <<pc, subscribers, tvars>>

\* The socket's send buffer fills up, or another task takes the library's
\* lock.
TxStalls ==
    /\ pc = "api" /\ tx_ready /\ link = "connected"
    /\ op' = Op("tx_stalls", NULLSTR, NULLSTR, NULLCB, 0)
    /\ Commit([Fresh EXCEPT !.tx_ready = FALSE])
    /\ rx_calls' = <<>>
    /\ UNCHANGED <<pc, subscribers, tvars>>

\* The peer has read, or the lock was given back.
TxResumes ==
    /\ pc = "api" /\ ~tx_ready
    /\ op' = Op("tx_resumes", NULLSTR, NULLSTR, NULLCB, 0)
    /\ Commit([Fresh EXCEPT !.tx_ready = TRUE])
    /\ rx_calls' = <<>>
    /\ UNCHANGED <<pc, subscribers, tvars>>

NextSend ==
    \/ Start
    \/ Connected
    \/ Disconnected
    \/ Reconnect
    \/ Stop
    \/ SendCall
    \/ SendTextReturns
    \/ TxStalls
    \/ TxResumes

SpecSend == InitBus /\ [][NextSend]_vars

(***************************************************************************)
(* Envelopes with and without a payload member                              *)
(***************************************************************************)
AbsorbedTopics == {T_ui_layout, T_ui_update, T_audio_play}

\* Base64 texts as JSON strings: three bytes, one byte, not base64, empty.
PlayTexts ==
    {<<QUOTE, "Q", "U", "J", "D", QUOTE>>, <<QUOTE, "Q", "Q", "=", "=", QUOTE>>,
     <<QUOTE, "!", "!", "!", "!", QUOTE>>, <<QUOTE, QUOTE>>}

PayloadFrames ==
    {Envelope(T_ui_layout, l) : l \in TargetLayouts}
        \cup {Envelope(T_ui_update, TextUpdate(t)) : t \in NewTexts}
        \cup {Envelope(T_audio_play, b) : b \in PlayTexts}

AbsentFrames == {TopicOnly(t) : t \in AbsorbedTopics}

\* What the read through the null pointer of audio_manager.c:49 comes to:
\* the load faults and the firmware stops, or the callback goes on to the
\* test of line 51.
NullReadOutcomes == {"halts", "returns"}

NullRead(st, outcome) ==
    IF st.lv_log.null_read /\ outcome = "halts"
    THEN [st EXCEPT !.lv_log.halted = TRUE]
    ELSE st

\* The websocket task hands a complete frame to sdui_bus_route_down.
AbsentDownlink ==
    /\ pc = "absent"
    /\ \E f \in PayloadFrames \cup AbsentFrames, outcome \in NullReadOutcomes :
           /\ op' = Op("sdui_bus_route_down", NULLSTR, f, NULLCB, 0)
           /\ Commit(NullRead(sdui_bus_route_down(FreshOf("websocket_task"), f),
                              outcome))
    /\ rx_calls' = <<>>
    /\ UNCHANGED <<pc, subscribers, tvars>>

InitAbsent ==
    /\ InitTransport
    /\ subscribers = SubscribeAll(<<>>, MainSubscriptions, 1)
    /\ UiIs(BootedUi)
    /\ pc = "absent"

NextAbsent == AbsentDownlink

SpecAbsent == InitAbsent /\ [][NextAbsent]_vars

(***************************************************************************)
(* websocket_send_json statement by statement, beside the event task        *)
(***************************************************************************)
\* The caller between the test of sdui_bus.c:208 and the call of line 215.
Checked(payload) == [state |-> "checked", payload |-> payload]

\* sdui_bus.c:208-211: the test of is_connected, client and payload.
SendTested(st, payload, by) ==
    IF SendDropped(payload)
    THEN [st EXCEPT !.send_calls =
              Append(@, [payload |-> payload, by |-> by])]
    ELSE [st EXCEPT !.send_calls =
              Append(@, [payload |-> payload, by |-> by]),
                    !.sender = Checked(payload)]

\* A task enters websocket_send_json and makes the test.
SendTest ==
    /\ pc = "api" /\ sender = Returned
    /\ \E payload \in SendTexts :
          /\ op' = Op("websocket_send_json", NULLSTR, payload, NULLCB, 0)
          /\ Commit(SendTested(FreshOf("task"), payload, "task"))
    /\ rx_calls' = <<>>
    /\ UNCHANGED <<pc, subscribers, tvars>>

\* sdui_bus.c:214-215: the task that passed the test calls the library.
SendHandsOver ==
    /\ pc = "api" /\ sender.state = "checked"
    /\ op' = Op("esp_websocket_client_send_text", NULLSTR, sender.payload,
                NULLCB, 0)
    /\ Commit(esp_websocket_client_send_text(
                  [FreshOf("task") EXCEPT !.sender = Returned],
                  sender.payload, SEND_TIMEOUT))
    /\ rx_calls' = <<>>
    /\ UNCHANGED <<pc, subscribers, tvars>>

NextRace ==
    \/ Start
    \/ Connected
    \/ Disconnected
    \/ Reconnect
    \/ Stop
    \/ SendTest
    \/ SendHandsOver
    \/ SendTextReturns
    \/ TxStalls
    \/ TxResumes

SpecRace == InitBus /\ [][NextRace]_vars

(***************************************************************************)
(* The LVGL task and the websocket task over the UI lock and the send      *)
(***************************************************************************)
\* The LVGL task takes the UI lock for a run of lv_timer_handler.
LvglEnters ==
    /\ pc = "api" /\ ui_task = "idle" /\ ui_lock = Unlocked
    /\ op' = Op("lv_timer_handler", NULLSTR, NULLSTR, NULLCB, 0)
    /\ Commit(bsp_display_lock(
                  [FreshOf("lvgl_task") EXCEPT !.ui_task = "lv_timer_handler"]))
    /\ rx_calls' = <<>>
    /\ UNCHANGED <<pc, subscribers, tvars>>

\* The URIs of the widgets' actions that are published upward.
UplinkUris == {URI_server_action, URI_go}

\* Inside lv_timer_handler an input event reaches action_event_cb, which
\* dispatches the widget's action.
LvglDispatches ==
    /\ pc = "api" /\ ui_task = "lv_timer_handler" /\ sender = Returned
    /\ \E uri \in UplinkUris :
          /\ op' = Op("dispatch_action", uri, NULLSTR, NULLCB, 0)
          /\ Commit(dispatch_action(
                        [FreshOf("lvgl_task") EXCEPT
                            !.ui_task = "action_event_cb"],
                        uri, S_a))
    /\ rx_calls' = <<>>
    /\ UNCHANGED <<pc, subscribers, tvars>>

\* lv_timer_handler has returned, and the LVGL task gives the lock back.
LvglLeaves ==
    /\ pc = "api" /\ ui_task \in {"lv_timer_handler", "action_event_cb"}
    /\ sender = Returned
    /\ op' = Op("bsp_display_unlock", NULLSTR, NULLSTR, NULLCB, 0)
    /\ Commit(bsp_display_unlock(
                  [FreshOf("lvgl_task") EXCEPT !.ui_task = "idle"]))
    /\ rx_calls' = <<>>
    /\ UNCHANGED <<pc, subscribers, tvars>>

\* The frames the server sends.
LockFrames == UiPayloadFrames \cup {Envelope(T_motion, P_twelve)}

\* The websocket task inside the subscriber that found the UI lock taken.
WaitsForLock(frame) == [state |-> "bsp_display_lock", frame |-> frame]

\* The subscriber of a frame that finds the UI lock taken waits in
\* bsp_display_lock: nothing of it has run.
RoutedOrWaiting(st, routed, frame) ==
    IF routed.lv_log.waited
    THEN [st EXCEPT !.rx_task = WaitsForLock(frame)]
    ELSE routed

\* The websocket task hands a complete frame to sdui_bus_route_down.
RxFrame ==
    /\ pc = "api" /\ rx_task = Delivered
    /\ link = "connected" /\ global_rx_cb # NULLCB
    /\ \E frame \in LockFrames :
          /\ op' = Op("sdui_bus_route_down", NULLSTR, frame, NULLCB, 0)
          /\ Commit(RoutedOrWaiting(
                        FreshOf("websocket_task"),
                        sdui_bus_route_down(FreshOf("websocket_task"), frame),
                        frame))
    /\ rx_calls' = <<>>
    /\ UNCHANGED <<pc, subscribers, tvars>>

\* The UI lock is free, and the waiting subscriber takes it and runs.
RxResumes ==
    /\ pc = "api" /\ rx_task # Delivered /\ ui_lock = Unlocked
    /\ op' = Op("bsp_display_lock", NULLSTR, rx_task.frame, NULLCB, 0)
    /\ Commit([sdui_bus_route_down(FreshOf("websocket_task"), rx_task.frame)
                  EXCEPT !.rx_task = Delivered])
    /\ rx_calls' = <<>>
    /\ UNCHANGED <<pc, subscribers, tvars>>

InitLock ==
    /\ InitTransport
    /\ subscribers = SubscribeAll(<<>>, MainSubscriptions, 1)
    /\ UiIs(BootedUi)
    /\ pc = "api"

NextLock ==
    \/ Start
    \/ Connected
    \/ Disconnected
    \/ Reconnect
    \/ LvglEnters
    \/ LvglDispatches
    \/ LvglLeaves
    \/ RxFrame
    \/ RxResumes
    \/ SendTextReturns
    \/ TxStalls
    \/ TxResumes

\* The subscriber waits and the UI lock is free.
LockOffered == pc = "api" /\ rx_task # Delivered /\ ui_lock = Unlocked

\* The scheduler runs every task that can run: a call waiting in the
\* library returns once the library can take the frame, the LVGL task
\* leaves its handler, and a task that waits for the UI lock gets it when
\* it is free again and again.  Nothing is assumed of the network.
SpecLock ==
    /\ InitLock /\ [][NextLock]_vars
    /\ SF_vars(SendTextReturns)
    /\ WF_vars(LvglLeaves)
    /\ ([]<>LockOffered => []<><<RxResumes>>_vars)


(***************************************************************************)
(* Properties of the transport, under Spec                                 *)
(***************************************************************************)
\* The frame on the wire is one the handler reassembles: a text or a
\* continuation frame whose buffer was allocated.
Reassembled ==
    /\ wire.op_code \in {OP_TEXT, OP_CONT}
    /\ wire.ok

\* The texts of the sends of the last step, in call order.
SentTexts == [i \in 1..Len(send_calls) |-> send_calls[i].payload]

\* C1: a message whose chunks arrive in order from offset 0 to payload_len,
\* with no disconnect in between and its buffer allocated, reaches the
\* receive callback exactly once, as the concatenation of the chunks, and
\* not before its last chunk; no reassembly buffer is held afterwards.
C1_ReassemblyExactlyOnce ==
    /\ wire.state = "rx" => wire.got = <<>>
    /\ (wire.state = "done" /\ Reassembled) =>
          /\ wire.got = <<wire.payload>>
          /\ rx_buffer = NULLBUF
          /\ rx_buffer_len = 0
          /\ ~fault

\* A text frame longer than one chunk whose last chunk, not its first, has
\* just completed it.
C1_Witness ==
    /\ op.name = "WEBSOCKET_EVENT_DATA"
    /\ wire.state = "done"
    /\ wire.op_code = OP_TEXT
    /\ wire.ok
    /\ op.n > 0
    /\ op.n < Len(wire.payload)
    /\ rx_calls = <<wire.payload>>
    /\ wire.got = <<wire.payload>>
    /\ rx_buffer = NULLBUF

\* C2: a message cut by a disconnect after its first chunk never reaches
\* the receive callback, its buffer is released and the accumulated length
\* is 0; the message completed after the reconnect is delivered as sent.
C2_DisconnectDiscards ==
    /\ wire.state = "aborted" =>
          /\ wire.got = <<>>
          /\ rx_buffer = NULLBUF
          /\ rx_buffer_len = 0
    /\ (wire.state = "done" /\ wire.after_abort /\ Reassembled) =>
          /\ rx_calls \in {<<>>, <<wire.payload>>}
          /\ wire.got = <<wire.payload>>

\* A message delivered after a message that was cut with bytes received,
\* none of which occurs in the delivered one.
C2_Witness ==
    /\ op.name = "WEBSOCKET_EVENT_DATA"
    /\ wire.state = "done"
    /\ wire.after_abort
    /\ wire.fresh
    /\ Reassembled
    /\ hist.reconnected
    /\ rx_calls = <<wire.payload>>
    /\ Len(wire.payload) > 0

\* C3: a send made while the link is not connected hands nothing to the
\* library, and the library is never handed a text that is not one of the
\* sends of the same step: nothing is queued for later.
C3_SendDroppedWhenNotConnected ==
    /\ link # "connected" => lib_tx = <<>>
    /\ \A i \in 1..Len(lib_tx) : \E j \in 1..Len(send_calls) :
          lib_tx[i] = send_calls[j].payload
    /\ Len(lib_tx) <= Len(send_calls)

\* A send made after a disconnect event and dropped.
C3_Witness ==
    /\ link = "disconnected"
    /\ hist.disconnected
    /\ client # NULLCLIENT
    /\ send_calls # <<>>
    /\ lib_tx = <<>>

\* C4: the connected flag is set exactly while the library is connected,
\* and every send made while it is connected, after a reconnect too, is
\* handed to the library.
C4_ConnectedFollowsEvents ==
    /\ is_connected <=> link = "connected"
    /\ link = "connected" => lib_tx = SentTexts

\* A send handed to the library after a disconnect and a reconnect.
C4_Witness ==
    /\ hist.reconnected
    /\ link = "connected"
    /\ is_connected
    /\ send_calls # <<>>
    /\ lib_tx = SentTexts


(***************************************************************************)
(* Properties of the bus, under SpecBus                                    *)
(***************************************************************************)
\* The value a text denotes as JSON: the whole text is one value, with
\* nothing but white space around it; NULLITEM when it is not JSON.
JsonValue(text) ==
    LET r == ParseWithOpts(text)
    IN  IF r.ok /\ buffer_skip_whitespace(text, r.pos) > Len(text)
        THEN r.item ELSE NULLITEM

\* A JSON text is compact: no white space from position k on but inside its
\* strings.
RECURSIVE Compact(_, _, _)
Compact(text, k, inString) ==
    IF k > Len(text) THEN TRUE
    ELSE IF inString
    THEN IF text[k] = BSLASH THEN Compact(text, k + 2, TRUE)
         ELSE Compact(text, k + 1, text[k] # QUOTE)
    ELSE ~IsWs(text[k]) /\ Compact(text, k + 1, text[k] = QUOTE)

\* The subscribers registered for topic t that have a callback, in
\* registration order.
SubscribersOf(t) ==
    SelectSeq(subscribers, LAMBDA r : r.topic = t /\ r.cb # NULLCB)

\* The callbacks of the last step's invocations, in order.
CalledBack == [i \in 1..Len(calls) |-> calls[i].cb]

\* The case of RouteCases or PublishCases the last step was given.
RoutedCase == RouteCases[op.n]

PublishedCase == PublishCases[op.n]

RoutedEnvelope ==
    /\ op.name = "sdui_bus_route_down"
    /\ RoutedCase.kind = "envelope"

\* C5: the table never holds more than 15 records; sdui_bus_init empties
\* it, a subscribe call made with fewer than 15 records appends the record
\* (topic, callback) at the end and any other subscribe call changes nothing.
C5_TableBounded ==
    /\ [](sub_count <= 15)
    /\ [][/\ op'.name = "sdui_bus_init" => subscribers' = <<>>
          /\ op'.name = "sdui_bus_subscribe" =>
                subscribers' =
                    IF sub_count < 15
                    THEN Append(subscribers,
                                [topic |-> op'.topic, cb |-> op'.cb])
                    ELSE subscribers]_vars

\* A subscribe call made with the table full.
C5_Witness ==
    /\ op.name = "sdui_bus_subscribe"
    /\ op.n = 15
    /\ sub_count = 15
    /\ subscribers[15] # [topic |-> op.topic, cb |-> op.cb]

\* C6: route_down of an envelope with topic t invokes the subscribers
\* registered for exactly t, once each and in registration order, and no
\* other subscriber.
C6_RouteDownDispatch ==
    RoutedEnvelope =>
        CalledBack = [i \in 1..Len(SubscribersOf(RoutedCase.t)) |->
                          SubscribersOf(RoutedCase.t)[i].cb]

\* Subscribers with different callbacks share the routed topic, and a
\* subscriber of another topic is left alone.
C6_Witness ==
    /\ RoutedEnvelope
    /\ Len(calls) >= 2
    /\ calls[1].cb # calls[Len(calls)].cb
    /\ \E i \in 1..sub_count :
          subscribers[i].topic # RoutedCase.t /\ subscribers[i].cb # NULLCB

\* C7: each subscriber invoked for the envelope {topic: t, payload: J} is
\* passed J's value when J is a string and otherwise a compact text that
\* denotes J; the bus keeps no payload string after the dispatch.
C7_PayloadRoundTrip ==
    RoutedEnvelope =>
        /\ \A i \in 1..Len(calls) :
              IF RoutedCase.J.type = "cJSON_String"
              THEN calls[i].payload = RoutedCase.J.valuestring
              ELSE /\ calls[i].payload # NULLSTR
                   /\ JsonValue(calls[i].payload) = RoutedCase.J
                   /\ Compact(calls[i].payload, 1, FALSE)
        /\ bus_heap = 0

\* A subscriber was passed the re-serialised text of an object written
\* with white space on the wire.
C7_Witness ==
    /\ RoutedEnvelope
    /\ RoutedCase.raw = Envelope(T_ui_update, J_object_ws)
    /\ calls # <<>>
    /\ calls[1].payload = J_object
    /\ bus_heap = 0

\* C8: publish_up(t, p) hands one text to the transport send; the text
\* denotes the object {topic: t, payload: J} when p is a JSON text denoting
\* J, and {topic: t, payload: the string p} when p is not a JSON text.
C8_PublishUpEnvelope ==
    op.name = "sdui_bus_publish_up" =>
        /\ Len(send_calls) = 1
        /\ JsonValue(send_calls[1].payload) =
              cJSON_Object(<<Keyed(TOPIC_KEY, cJSON_String(PublishedCase.t)),
                             Keyed(PAYLOAD_KEY,
                                   IF PublishedCase.json
                                   THEN PublishedCase.J
                                   ELSE cJSON_String(PublishedCase.p))>>)

\* The subscribers of the published topic are invoked once each, in
\* registration order, with the payload as it was given.
LocalFanOut ==
    calls = [i \in 1..Len(SubscribersOf(op.topic)) |->
                 [cb |-> SubscribersOf(op.topic)[i].cb,
                  payload |-> op.payload]]

\* C9 as stated: publish_local(t, p) invokes the subscribers of t in order
\* with p unchanged, and the transport send is not called during it.
C9_PublishLocalNeverSends ==
    (op.name = "sdui_bus_publish_local" /\ op.topic # NULLSTR) =>
        /\ LocalFanOut
        /\ send_calls = <<>>

\* C9: publish_local(t, p) invokes the subscribers of t in order with p
\* unchanged and leaves the table as it was; it hands nothing to the
\* transport itself: the only sends during it are the status reports of the
\* record callbacks it invoked, and never p.
C9_PublishLocalFanOut ==
    /\ [](op.name = "sdui_bus_publish_local" =>
            /\ op.topic # NULLSTR => LocalFanOut
            /\ op.topic = NULLSTR => calls = <<>>
            /\ \A i \in 1..Len(send_calls) :
                  /\ send_calls[i].by \in
                        {"audio_record_start", "audio_record_stop"}
                  /\ \E k \in 1..Len(calls) :
                        calls[k].cb \in {"on_audio_record_start",
                                         "on_audio_record_stop"})
    /\ [][op'.name = "sdui_bus_publish_local" =>
              subscribers' = subscribers]_vars

\* Several subscribers were handed the published payload while the link
\* was connected, and nothing was sent.
C9_Witness ==
    /\ op.name = "sdui_bus_publish_local"
    /\ link = "connected"
    /\ Len(calls) >= 2
    /\ calls[1].cb # calls[Len(calls)].cb
    /\ calls[1].payload = op.payload
    /\ send_calls = <<>>

\* C10: route_down of a text that is not JSON, or of an object without a
\* string member named topic, invokes no subscriber and changes neither
\* the recording flag nor anything else.
C10_RouteDownRejects ==
    (/\ op.name = "sdui_bus_route_down"
     /\ RoutedCase.kind \in {"not_json", "no_string_topic"}) =>
        /\ calls = <<>>
        /\ send_calls = <<>>
        /\ bus_heap = 0

(***************************************************************************)
(* Properties of the layout parser, under SpecUi                           *)
(***************************************************************************)
\* The last call was a render that got past the parse: the tree was cleaned
\* and built again.
Rendered == op.name = "sdui_parser_render" /\ lv_log.cleaned

\* The nodes the render constructed that carry a string id, in document
\* order.
IdNodes == SelectSeq(lv_log.created, LAMBDA c : c.id # NULLSTR)

\* The entry the registry holds for a node: its id cut to the field, its
\* object.
EntryOf(c) == [id |-> strncpy(c.id, ID_SIZE - 1), obj |-> c.obj]

\* C11: after every completed render the ID registry holds exactly one entry
\* for each constructed node of the new tree that carries a string id, in
\* document order and at most 64 of them, and no entry of an earlier render;
\* a node with an id beyond the 64th is created all the same, but has no
\* entry, so find_by_id does not return it.
C11_RegistryAfterRender ==
    Rendered =>
        LET n == IF Len(IdNodes) < MAX_ID_ENTRIES THEN Len(IdNodes)
                 ELSE MAX_ID_ENTRIES
        IN  /\ s_id_table = [i \in 1..n |-> EntryOf(IdNodes[i])]
            /\ \A i, j \in 1..Len(s_id_table) :
                   s_id_table[i].obj = s_id_table[j].obj => i = j
            /\ \A i \in 1..Len(IdNodes) :
                   /\ IdNodes[i].obj \in 2..Len(lv_objs)
                   /\ i > MAX_ID_ENTRIES =>
                         /\ \A k \in 1..Len(s_id_table) :
                                s_id_table[k].obj # IdNodes[i].obj
                         /\ sdui_parser_find_by_id(s_id_table, IdNodes[i].id)
                                # IdNodes[i].obj

\* A render of 65 nodes with ids: 64 entries, the 64th for y; the node z
\* exists and is not found.
C11_Witness ==
    /\ Rendered
    /\ Len(IdNodes) = MAX_ID_ENTRIES + 1
    /\ Len(lv_objs) = MAX_ID_ENTRIES + 2
    /\ Len(s_id_table) = MAX_ID_ENTRIES
    /\ sdui_parser_find_by_id(s_id_table, ID_y) = IdNodes[MAX_ID_ENTRIES].obj
    /\ IdNodes[MAX_ID_ENTRIES + 1].id = ID_z
    /\ sdui_parser_find_by_id(s_id_table, ID_z) = NULLOBJ

\* The allocated blocks of a kind.
Allocated(kind) == {p \in DOMAIN lv_heap : lv_heap[p].kind = kind}

\* The nodes of the tree that are bound to actions.
ActionBound ==
    {h \in 1..Len(lv_objs) :
        \E i \in 1..Len(lv_objs[h].cbs) :
            lv_objs[h].cbs[i].cb = "action_event_cb"}

\* C12: every action struct allocated for a node with on_click, on_press or
\* on_release is freed when that node is deleted, so that after any sequence
\* of renders the action structs still allocated are those of the
\* action-bound nodes of the current tree, one each.
C12_ActionStructsFreed ==
    /\ Cardinality(Allocated("action_data_t")) = Cardinality(ActionBound)
    /\ \A p \in Allocated("action_data_t") : lv_heap[p].owner \in ActionBound

\* The blocks a widget owns besides its action struct.
OwnedKinds ==
    {"image_buf", "image_data_t", "slider_data_t", "color_anim_data_t",
     "particle_buf", "particle_data_t"}

\* The blocks freed by the last call that a node owned, each freed while
\* that node was being deleted.
FreedAtDeletion ==
    \A i \in 1..Len(lv_log.frees) :
        (/\ lv_log.frees[i].kind \in OwnedKinds
         /\ lv_log.frees[i].owner # NULLOBJ) =>
            lv_log.frees[i].at = lv_log.frees[i].owner

\* No block a widget owned is left allocated without its widget.
NoneLeft ==
    \A p \in DOMAIN lv_heap :
        lv_heap[p].kind \in OwnedKinds => lv_heap[p].owner \in 2..Len(lv_objs)

\* C13: every image buffer with its descriptor, slider descriptor,
\* colour-pulse struct and particle buffer with its state is released once,
\* at the deletion of the node that owns it and not before; none is released
\* twice and none is left allocated after its node.
C13_OwnedBuffersReleased ==
    /\ FreedAtDeletion
    /\ ~lv_log.bad_free
    /\ NoneLeft

\* The same while no allocation fails.
C13_ReleasedWhenAllocated ==
    lv_log.fail = 0 => C13_OwnedBuffersReleased

\* The spin animations that are running.
Spinning == {a \in lv_anims : a.exec_cb = "anim_rotation_exec_cb"}

\* The spin counter after the i-th spin request of the last call: the
\* counter the next request found, or the counter now.
SpinAfter(i) ==
    IF i < Len(lv_log.spins) THEN lv_log.spins[i + 1].before ELSE s_spin_count

\* The objects for which the last call started a spin animation, in order.
SpinStarts ==
    SelectSeq(lv_log.started, LAMBDA a : a.exec_cb = "anim_rotation_exec_cb")

SpinGrants == SelectSeq(lv_log.spins, LAMBDA r : r.started)

\* C14: the spin counter is between 0 and 2 and at most two spin animations
\* run; a spin request made while the counter is 2, or made for a node that
\* is not an image, starts no animation and leaves the counter as it was.
C14_SpinLimit ==
    /\ s_spin_count \in 0..MAX_SPIN_ANIM
    /\ Cardinality(Spinning) <= MAX_SPIN_ANIM
    /\ \A i \in 1..Len(lv_log.spins) :
           LET r == lv_log.spins[i] IN
           IF r.before >= MAX_SPIN_ANIM \/ lv_objs[r.obj].class # "lv_image"
           THEN ~r.started /\ SpinAfter(i) = r.before
           ELSE r.started /\ SpinAfter(i) = r.before + 1
    /\ Len(SpinStarts) = Len(SpinGrants)
    /\ \A i \in 1..Len(SpinStarts) : SpinStarts[i].var_obj = SpinGrants[i].obj

\* One render asked for a spin on a label and on three images: the label is
\* refused at counter 0, two images spin, the third is refused at counter 2.
C14_Witness ==
    /\ Rendered
    /\ Len(lv_log.spins) = 4
    /\ lv_objs[lv_log.spins[1].obj].class = "lv_label"
    /\ lv_log.spins[1].before = 0 /\ ~lv_log.spins[1].started
    /\ lv_log.spins[2].started /\ lv_log.spins[3].started
    /\ lv_objs[lv_log.spins[4].obj].class = "lv_image"
    /\ lv_log.spins[4].before = MAX_SPIN_ANIM /\ ~lv_log.spins[4].started
    /\ s_spin_count = MAX_SPIN_ANIM
    /\ Cardinality(Spinning) = MAX_SPIN_ANIM

\* The delete hooks of accepted spins on the objects of the tree.
SpinHooks ==
    UNION {{<<h, i>> : i \in {k \in 1..Len(lv_objs[h].cbs) :
                                 lv_objs[h].cbs[k].cb = "spin_delete_cb"}} :
           h \in 1..Len(lv_objs)}

\* A step that is a render which got past the parse.
RenderStep == op'.name = "sdui_parser_render" /\ lv_log'.cleaned

\* C15: spin slots are released by deletion.  The counter is the number of
\* delete hooks held for accepted spins; from counter 0 the first two spin
\* requests on images are accepted and the third is refused; the deletion of
\* an image that holds an accepted spin takes one off the counter, never
\* below 0; a render leaves the counter at 0 before it builds the new tree,
\* so the requests that follow the deletions are accepted again.
C15_SpinSlotsReleased ==
    /\ [](/\ s_spin_count = Cardinality(SpinHooks)
          /\ \A i \in 1..Len(lv_log.spins) :
                lv_objs[lv_log.spins[i].obj].class = "lv_image" =>
                    (lv_log.spins[i].started <=>
                        lv_log.spins[i].before < MAX_SPIN_ANIM))
    /\ [][RenderStep =>
             /\ Len(lv_log'.released) = Cardinality(SpinHooks)
             /\ \A i \in 1..Len(lv_log'.released) :
                   /\ lv_log'.released[i].before = s_spin_count - (i - 1)
                   /\ lv_log'.released[i].after = s_spin_count - i
                   /\ lv_log'.released[i].after >= 0
             /\ Len(lv_log'.spins) > 0 => lv_log'.spins[1].before = 0
             /\ s_spin_count' = Len(SpinGrants')]_vars

\* A render has deleted two spinning images, which took the counter from 2
\* to 1 and to 0, and the spins its layout asks for were accepted again up
\* to the limit.
C15_Witness ==
    /\ Rendered
    /\ Len(lv_log.released) = MAX_SPIN_ANIM
    /\ lv_log.released[1].before = MAX_SPIN_ANIM
    /\ lv_log.released[MAX_SPIN_ANIM].after = 0
    /\ Len(SpinGrants) = MAX_SPIN_ANIM
    /\ SpinGrants[1].before = 0
    /\ \E i \in 1..Len(lv_log.spins) :
          /\ lv_log.spins[i].before = MAX_SPIN_ANIM
          /\ ~lv_log.spins[i].started

\* What the parser holds: the scene graph, the registry, the spin counter,
\* the animations and the heap.
ui_vars ==
    <<s_root_view, lv_objs, s_id_table, s_spin_count, lv_anims, lv_heap>>

\* The last call built nothing, deleted nothing and started no animation.
Untouched ==
    /\ ~lv_log.cleaned
    /\ lv_log.created = <<>>
    /\ lv_log.started = <<>>
    /\ lv_log.frees = <<>>
    /\ lv_log.spins = <<>>

\* C16: render(text) with a text that is not parseable JSON changes nothing:
\* the scene graph, the root opacity, the registry and the spin counter stay
\* as they were and no fade animation is started.
C16_RenderRejectsNonJson ==
    (/\ op.name = "sdui_parser_render"
     /\ JsonValue(op.payload) = NULLITEM) => Untouched

\* The same for the texts in which cJSON_Parse finds no value at all.
C16_RenderRejectsUnparsed ==
    [][(/\ op'.name = "sdui_parser_render"
        /\ cJSON_Parse(op'.payload) = NULLITEM) =>
            /\ UNCHANGED ui_vars
            /\ Untouched']_vars

\* The member of the JSON object J whose name is exactly `name`; NULLITEM
\* when J is no object or has no such member.
MemberOf(J, name) ==
    IF ~cJSON_IsObject(J) THEN NULLITEM
    ELSE LET hits == {i \in 1..Len(J.child) : J.child[i].string = name}
         IN  IF hits = {} THEN NULLITEM
             ELSE J.child[CHOOSE i \in hits : \A j \in hits : i <= j]

\* The ids the registry holds.
RegisteredIds == {s_id_table[i].id : i \in 1..Len(s_id_table)}

\* The text U is not JSON, or has no string id, or its id is not registered.
NotAddressed(U) ==
    LET J == JsonValue(U) IN
    \/ J = NULLITEM
    \/ ~cJSON_IsString(MemberOf(J, K_id))
    \/ MemberOf(J, K_id).valuestring \notin RegisteredIds

\* C17: update(U) leaves the scene graph, the registry and the spin counter
\* unchanged whenever U is not parseable JSON, has no string id, or has an id
\* that is not in the registry: it finds no object to change.
C17_UpdateNoOp ==
    (op.name = "sdui_parser_update" /\ NotAddressed(op.payload)) =>
        /\ lv_log.target = NULLOBJ
        /\ Untouched

\* The same for the texts in which cJSON_Parse finds no value, no member
\* named id or ID that is a string, or an id that is not registered.
C17_UpdateNoOpAsParsed ==
    [][(/\ op'.name = "sdui_parser_update"
        /\ LET root == cJSON_Parse(op'.payload)
               id   == cJSON_GetObjectItem(root, K_id)
           IN  \/ root = NULLITEM
               \/ ~cJSON_IsString(id)
               \/ id.valuestring \notin RegisteredIds) =>
            /\ UNCHANGED ui_vars
            /\ lv_log'.target = NULLOBJ]_vars

\* The action struct bind_actions attached to widget h.
ActionData(h) ==
    LET i == CHOOSE i \in 1..Len(lv_objs[h].cbs) :
                 lv_objs[h].cbs[i].cb = "action_event_cb"
    IN  lv_heap[lv_objs[h].cbs[i].user_data]

\* The binding of widget h that an input event of the given code stands for.
Bound(h, code) ==
    CASE code = "LV_EVENT_CLICKED" -> ActionData(h).on_click
      [] code = "LV_EVENT_PRESSED" -> ActionData(h).on_press
      [] code \in {"LV_EVENT_RELEASED", "LV_EVENT_PRESS_LOST"} ->
             ActionData(h).on_release
      [] OTHER -> <<>>

\* The ids under which widget h stands in the registry.
RegisteredAs(h) ==
    {s_id_table[i].id : i \in {k \in 1..Len(s_id_table) :
                                   s_id_table[k].obj = h}}

BeginsWith(u, prefix) ==
    Len(u) >= Len(prefix) /\ SubSeq(u, 1, Len(prefix)) = prefix

Rest(u, prefix) == SubSeq(u, Len(prefix) + 1, Len(u))

\* The step delivers an input event to an action-bound widget whose binding
\* for that event is a non-empty URI.
Dispatching ==
    /\ op'.name = "lv_obj_send_event"
    /\ op'.n \in ActionBound
    /\ Bound(op'.n, op'.cb) # <<>>

\* The one publish dispatch_action makes for URI u.
RoutedPublish(u, pub) ==
    /\ BeginsWith(u, URI_LOCAL) =>
          pub.kind = "local" /\ pub.topic = Rest(u, URI_LOCAL)
    /\ BeginsWith(u, URI_SERVER) =>
          pub.kind = "up" /\ pub.topic = Rest(u, URI_SERVER)
    /\ ~BeginsWith(u, URI_LOCAL) /\ ~BeginsWith(u, URI_SERVER) =>
          pub.kind = "up" /\ pub.topic = T_ui_click

\* The sends of the step that dispatch_action itself handed to the transport.
OwnSends(sends) ==
    SelectSeq(sends, LAMBDA c : c.by = "dispatch_action")

\* C18 as stated: a dispatched non-empty URI u of a widget registered as w
\* makes one publish with payload {"id":"w"}: local on the rest of u after
\* local://, with nothing sent upward; upward on the rest of u after
\* server://; upward on ui/click otherwise.
C18_DispatchRoutes ==
    [][Dispatching =>
         LET u == Bound(op'.n, op'.cb) IN
         /\ Len(lv_log'.pubs) = 1
         /\ RoutedPublish(u, lv_log'.pubs[1])
         /\ \A w \in RegisteredAs(op'.n) :
               lv_log'.pubs[1].payload = PL_HEAD \o w \o PL_TAIL
         /\ BeginsWith(u, URI_LOCAL) => send_calls' = <<>>
         /\ ~BeginsWith(u, URI_LOCAL) =>
               send_calls' =
                   <<[payload |-> Envelope(lv_log'.pubs[1].topic,
                                           lv_log'.pubs[1].payload),
                      by |-> "dispatch_action"]>>]_vars

\* C18: the same, except that for a local:// URI it is dispatch_action that
\* sends nothing upward: the subscribers the local publish invokes get the
\* payload, and the only sends of the step are the status reports of the
\* record callbacks among them.  A widget that is not registered is
\* reported as "unknown".
C18_DispatchRoutesOwnSends ==
    [][Dispatching =>
         LET u == Bound(op'.n, op'.cb) IN
         /\ Len(lv_log'.pubs) = 1
         /\ RoutedPublish(u, lv_log'.pubs[1])
         /\ \A w \in RegisteredAs(op'.n) :
               lv_log'.pubs[1].payload = PL_HEAD \o w \o PL_TAIL
         /\ RegisteredAs(op'.n) = {} =>
               lv_log'.pubs[1].payload = PL_HEAD \o WID_unknown \o PL_TAIL
         /\ BeginsWith(u, URI_LOCAL) =>
               /\ OwnSends(send_calls') = <<>>
               /\ \A i \in 1..Len(calls') :
                     calls'[i].payload = lv_log'.pubs[1].payload
               /\ \A i \in 1..Len(send_calls') :
                     /\ send_calls'[i].by \in
                           {"audio_record_start", "audio_record_stop"}
                     /\ \E k \in 1..Len(calls') :
                           calls'[k].cb \in {"on_audio_record_start",
                                             "on_audio_record_stop"}
         /\ ~BeginsWith(u, URI_LOCAL) =>
               /\ calls' = <<>>
               /\ send_calls' =
                     <<[payload |-> Envelope(lv_log'.pubs[1].topic,
                                             lv_log'.pubs[1].payload),
                        by |-> "dispatch_action"]>>]_vars

\* A press on a registered button bound to local://audio/cmd/record_start
\* was published locally, and the record callback reported upward.
C18_Witness ==
    /\ op.name = "lv_obj_send_event"
    /\ op.cb = "LV_EVENT_PRESSED"
    /\ op.n \in ActionBound
    /\ RegisteredAs(op.n) # {}
    /\ Len(lv_log.pubs) = 1
    /\ lv_log.pubs[1].kind = "local"
    /\ lv_log.pubs[1].topic = T_record_start
    /\ Len(calls) = 1
    /\ Len(send_calls) = 1

\* The step clicks the button that L_clicks declares with "on_click": "":
\* the only widget registered as b whose action struct holds no click URI.
EmptyClick ==
    /\ op'.name = "lv_obj_send_event"
    /\ op'.cb = "LV_EVENT_CLICKED"
    /\ op'.n \in ActionBound
    /\ RegisteredAs(op'.n) = {ID_b}
    /\ ActionData(op'.n).on_click = <<>>

\* C19: a click on a widget whose on_click is the empty string makes one
\* uplink publish on ui/click with payload {"id":"<widget-id>"}.
C19_EmptyClickReports ==
    [][EmptyClick =>
         /\ lv_log'.pubs = <<[kind |-> "up", topic |-> T_ui_click,
                              payload |-> PL_HEAD \o ID_b \o PL_TAIL]>>
         /\ send_calls' =
               <<[payload |-> Envelope(T_ui_click,
                                       PL_HEAD \o ID_b \o PL_TAIL),
                  by |-> "dispatch_action"]>>]_vars

\* What the click does instead: nothing is published, locally or upward.
C19_EmptyClickSilent ==
    [][EmptyClick =>
         /\ lv_log'.pubs = <<>>
         /\ send_calls' = <<>>
         /\ calls' = <<>>]_vars

\* C20: an input event on an action-bound widget dispatches the one binding
\* its code stands for (click: on_click, press: on_press, release and
\* press-lost: on_release) and no other; when the node has no URI for that
\* binding, or the code is none of the four, nothing is dispatched.
C20_EventBindings ==
    [][(op'.name = "lv_obj_send_event" /\ op'.n \in ActionBound) =>
         LET u == Bound(op'.n, op'.cb) IN
         /\ (u = <<>> /\ ~EmptyClick) =>
               /\ lv_log'.pubs = <<>>
               /\ send_calls' = <<>>
               /\ calls' = <<>>
         /\ u # <<>> =>
               /\ Len(lv_log'.pubs) = 1
               /\ RoutedPublish(u, lv_log'.pubs[1])
               /\ Len(OwnSends(send_calls')) + Len(calls') = 1]_vars

\* A press-lost event on a button whose three bindings differ dispatched
\* its on_release URI, local://audio/cmd/record_stop.
C20_Witness ==
    /\ op.name = "lv_obj_send_event"
    /\ op.cb = "LV_EVENT_PRESS_LOST"
    /\ op.n \in ActionBound
    /\ ActionData(op.n).on_click # <<>>
    /\ ActionData(op.n).on_press # <<>>
    /\ ActionData(op.n).on_press # ActionData(op.n).on_release
    /\ ActionData(op.n).on_click # ActionData(op.n).on_release
    /\ Len(lv_log.pubs) = 1
    /\ lv_log.pubs[1].topic = T_record_stop

\* The envelope of {"state":"<word>"} on audio/record, as it goes out.
RecordFrame(word) ==
    Envelope(T_audio_record,
             <<"{", QUOTE, "s", "t", "a", "t", "e", QUOTE, ":", QUOTE>>
                 \o word \o <<QUOTE, "}">>)

\* The step delivered an input event that ended in the record callback cb.
RecordCall(cb) ==
    /\ op'.name = "lv_obj_send_event"
    /\ Len(calls') = 1
    /\ calls'[1].cb = cb

\* C21: record_start publishes {"state":"start"} on audio/record and sets
\* the recording flag only when the flag was false, record_stop publishes
\* {"state":"stop"} and clears it only when it was true; a repeated start or
\* stop publishes nothing and leaves the flag as it was.
C21_RecordEdgeTriggered ==
    [][/\ RecordCall("on_audio_record_start") =>
            /\ is_recording'
            /\ send_calls' =
                  IF is_recording THEN <<>>
                  ELSE <<[payload |-> RecordFrame(<<"s", "t", "a", "r", "t">>),
                          by |-> "audio_record_start"]>>
       /\ RecordCall("on_audio_record_stop") =>
            /\ ~is_recording'
            /\ send_calls' =
                  IF ~is_recording THEN <<>>
                  ELSE <<[payload |-> RecordFrame(<<"s", "t", "o", "p">>),
                          by |-> "audio_record_stop"]>>]_vars

\* A press-lost event reached record_stop while nothing was being recorded:
\* nothing was sent and the flag stayed false.
C21_Witness ==
    /\ op.name = "lv_obj_send_event"
    /\ op.cb = "LV_EVENT_PRESS_LOST"
    /\ Len(calls) = 1
    /\ calls[1].cb = "on_audio_record_stop"
    /\ send_calls = <<>>
    /\ ~is_recording

(***************************************************************************)
(* C22                                                                     *)
(***************************************************************************)
\* C22: on the audio/record uplink, in every interleaving of the LVGL task
\* (press, release) and audio_record_task, no stream frame is published
\* before the first start frame, and after a stop frame at most one stream
\* frame is published until the next start frame.  "Published" is the call
\* of sdui_bus_publish_up, whether or not the link carries the frame.
C22_HoldToTalkOrdering ==
    /\ uplink.last = "none" => uplink.streams = 0
    /\ uplink.last = "stop" => uplink.streams <= 1

\* The frame read before the release was published after the stop frame.
C22_Witness ==
    /\ uplink = [last |-> "stop", streams |-> 1]
    /\ op.name = "audio_record_task"
    /\ Len(send_calls) = 1
    /\ send_calls[1].by = "audio_record_task"
    /\ ~is_recording

(***************************************************************************)
(* C23                                                                     *)
(***************************************************************************)
\* C23: a tick of the particle timer that fires while the recording flag is
\* true writes nothing to the canvas and leaves every particle as it was; a
\* tick that fires while the flag is false, the first one after a recording
\* included, writes to the canvas and advances the particles.
C23_ParticleThrottle ==
    [][op'.name = "particle_timer_cb" =>
          IF is_recording
          THEN lv_log'.canvas = <<>> /\ lv_heap' = lv_heap
          ELSE /\ Len(lv_log'.canvas) = 1
               /\ lv_log'.canvas[1].canvas = lv_heap[op'.n].owner
               /\ lv_heap[op'.n].count > 0 =>
                      lv_heap'[op'.n] = ParticlesAdvanced(lv_heap[op'.n])
                      /\ lv_heap'[op'.n] # lv_heap[op'.n]]_vars

\* A tick during a recording, the particles stopped in mid-flight.
C23_Witness ==
    /\ op.name = "particle_timer_cb"
    /\ is_recording
    /\ lv_log.canvas = <<>>
    /\ lv_heap[op.n].active
    /\ lv_heap[op.n].alpha < 247

(***************************************************************************)
(* C24                                                                     *)
(***************************************************************************)
\* The last step polled a sample of the accelerometer.
Polled == op'.name = "imu_polling_task" /\ op'.cb = "sample"

\* The motion publishes of the last step.
MotionSends ==
    {i \in 1..Len(send_calls') : send_calls'[i].by = "imu_polling_task"}

\* C24: a polled sample above 14.7 m/s^2 that is not among the 10 samples
\* polled after a motion publish is published once on topic motion; none of
\* the 10 samples polled after a motion publish is published; a sample at
\* or below 14.7 m/s^2 is never published.
C24_ShakeCooldown ==
    [][Polled =>
          /\ Cardinality(MotionSends) =
                 IF /\ op'.n > 1470
                    /\ motion.any => motion.polled >= 10
                 THEN 1 ELSE 0
          /\ send_calls' # <<>> =>
                 BeginsWith(send_calls'[1].payload,
                            ENV_HEAD \o <<QUOTE>> \o T_motion \o <<QUOTE>>)]_vars

\* What the task does: after a motion publish the next 9 polled samples are
\* not published, and the tenth is if it is above the threshold.
C24_NineSuppressed ==
    [][Polled =>
          Cardinality(MotionSends) =
              IF /\ op'.n > 1470
                 /\ motion.any => motion.polled >= 9
              THEN 1 ELSE 0]_vars

(***************************************************************************)
(* C30                                                                     *)
(***************************************************************************)
\* C30: whatever canvas_w and canvas_h a particle node gives, the canvas
\* buffer that is allocated holds at most 200 x 200 RGB565 pixels, 80,000
\* bytes, the stored width and height are at most 200, and at most 30
\* particles are animated.
C30_CanvasCapped ==
    \A p \in DOMAIN lv_heap :
        /\ lv_heap[p].kind = "particle_buf" => lv_heap[p].size <= 80000
        /\ lv_heap[p].kind = "particle_data_t" =>
               /\ lv_heap[p].canvas_w <= 200
               /\ lv_heap[p].canvas_h <= 200
               /\ lv_heap[p].count <= 30

(***************************************************************************)
(* The screen-sleep timer, under SpecScreen                                 *)
(***************************************************************************)
\* The step routes the frame f down.
Routes(f) == op'.name = "sdui_bus_route_down" /\ op'.payload = f

\* After a tick the backlight follows the inactivity time.
TickSetsBacklight ==
    op'.name = "screen_sleep_timer_cb" =>
        backlight' = IF inactive_time' > SCREEN_SLEEP_TIMEOUT_MS THEN 0
                     ELSE 100

\* Only the passing of a timer period lets the inactivity time grow.
OnlyTimeGrows ==
    inactive_time' > inactive_time => op'.name = "screen_sleep_timer_cb"

\* C27 as stated, refuted: after every 500 ms tick the backlight is 0 when
\* the inactivity exceeds 30 s and 100 otherwise, and every ui/layout or
\* ui/update downlink counts as activity, so that the first tick after
\* such a frame restores a sleeping screen to 100. A frame without a payload
\* member reaches the handler with NULL, and the handler returns before
\* lv_disp_trig_activity.
C27_UiFrameIsActivity ==
    [][/\ TickSetsBacklight
       /\ OnlyTimeGrows
       /\ \A f \in UiFrames : Routes(f) => inactive_time' = 0]_vars

\* C27, amended: after every 500 ms tick the backlight is 0 when the
\* inactivity exceeds 30 s and 100 otherwise; a ui/layout or ui/update
\* downlink that carries a payload counts as activity, and since only the
\* passing of time lets the inactivity grow, the first tick after such a
\* frame restores a sleeping screen to 100.
C27_PayloadFrameIsActivity ==
    [][/\ TickSetsBacklight
       /\ OnlyTimeGrows
       /\ \A f \in UiPayloadFrames : Routes(f) => inactive_time' = 0]_vars

\* A frame with a payload has just reached a sleeping screen: the screen
\* is still dark and the inactivity time is back at 0.
C27_Witness ==
    /\ op.name = "sdui_bus_route_down"
    /\ op.payload \in UiPayloadFrames
    /\ is_screen_sleeping
    /\ backlight = 0
    /\ inactive_time = 0

(***************************************************************************)
(* Boot, under SpecBoot                                                     *)
(***************************************************************************)
\* The positions of a provisioned boot, in the order of app_main.
BootOrder ==
    <<"bsp_display_start", "sdui_parser_init", "is_provisioned">>
        \o ProvisionedPath

OnBootOrder == \E i \in DOMAIN BootOrder : BootOrder[i] = pc

PositionOf(p) == CHOOSE i \in DOMAIN BootOrder : BootOrder[i] = p

\* The topics subscribed in a provisioned boot, in the order of the calls.
BootTopics ==
    <<T_audio_play, T_ui_layout, T_ui_update, T_record_start, T_record_stop>>

\* The topics of the subscription table, in registration order.
Subscribed == [i \in DOMAIN subscribers |-> subscribers[i].topic]

\* The number of subscribe calls made when app_main is at position i.
SubscribedBy(i) ==
    IF i <= PositionOf("audio_app_start") THEN 0
    ELSE IF i >= PositionOf("wifi_init_sta") THEN Len(BootTopics)
    ELSE i - PositionOf("audio_app_start")

SsidStored == nvs_ssid # NULLSTR /\ nvs_ssid # <<>>

Protected ==
    {"sdui_parser_render", "sdui_parser_update", "build_loading_screen",
     "build_provisioning_screen"}

\* C28: every execution of render and update and every build of the
\* loading or the provisioning screen runs in a task that holds the UI lock
\* at that moment, and the lock is free again once the step of app_main or
\* the handler of ui/layout or ui/update has returned, on every path.
C28_UiLockHeld ==
    /\ \A i \in DOMAIN lv_log.ran :
           /\ lv_log.ran[i].fn \in Protected
           /\ lv_log.ran[i].holder = lv_log.ran[i].task
    /\ ui_lock = Unlocked

\* The transport's task has just rendered a layout.
C28_Witness ==
    /\ \E i \in DOMAIN lv_log.ran :
           /\ lv_log.ran[i].fn = "sdui_parser_render"
           /\ lv_log.ran[i].task = "websocket_task"
           /\ lv_log.ran[i].holder = "websocket_task"
    /\ lv_objs # BootedUi.lv_objs
    /\ ui_lock = Unlocked

(***************************************************************************)
(* The transport's send, under SpecSend                                     *)
(***************************************************************************)
\* C29 as stated, refuted: websocket_send_json returns to its caller in the
\* step it is called in, whatever the connection state, so that no call is
\* ever found waiting inside the library. While the link is up the call
\* passes portMAX_DELAY to esp_websocket_client_send_text and waits there
\* until the library can take the frame.
C29_SendNeverWaits == sender = Returned

\* While the link is down, or without a client or a text, the call is
\* dropped and returns at once.
C29_DroppedReturns ==
    [][(op'.name = "websocket_send_json" /\ SendDropped(op'.payload)) =>
           /\ sender' = Returned
           /\ lib_tx' = <<>>]_vars

(***************************************************************************)
(* sdui_parser_init, under SpecReinit                                       *)
(***************************************************************************)
\* C31 as stated, refuted: sdui_parser_init leaves the ID registry empty and
\* the spin counter at 0, whatever the engine's state was before the call.
\* The function clears the registry and leaves s_spin_count as it was.
C31_InitClears ==
    [][op'.name = "sdui_parser_init" =>
           /\ s_id_table' = <<>>
           /\ s_spin_count' = 0]_vars

\* The registry is empty after every call, and the spin counter is what it
\* was before the call.
C31_InitClearsRegistry ==
    [][op'.name = "sdui_parser_init" =>
           /\ s_id_table' = <<>>
           /\ s_spin_count' = s_spin_count]_vars

(***************************************************************************)
(* The repeat count of animations, under SpecAnim                           *)
(***************************************************************************)
\* The exec callback of an animation type.
ExecOf(atype) ==
    IF atype = AT_spin THEN "anim_rotation_exec_cb"
    ELSE IF atype = AT_color_pulse THEN "anim_color_exec_cb"
    ELSE "anim_opa_exec_cb"

\* The animations of the type just asked for that the last step started on
\* the widget.
StartedOnWidget ==
    {a \in {lv_log.started[k] : k \in DOMAIN lv_log.started} :
        /\ a.exec_cb = ExecOf(op.topic)
        /\ a.var_obj # s_root_view}

\* The repeat member of the last step.
Asked == AnimRepeats[op.n]

AnimStep == op.name = "sdui_parser_render"

\* The repeat member is absent, or it is written with a minus sign.
AbsentOrNegative ==
    \/ Asked.text = <<>>
    \/ Asked.number /\ Head(SubSeq(Asked.text, Len(RepeatMember(<<>>)) + 1,
                                   Len(Asked.text))) = "-"

\* C32 as stated, refuted: an absent or negative repeat means infinite, a
\* positive repeat n means n cycles, and repeat 0 means infinite for breathe
\* and color_pulse and a count of 0 for blink and spin.  spin turns a count
\* of 0 into LV_ANIM_REPEAT_INFINITE as breathe and color_pulse do, and a
\* negative repeat above -1 has the integer value 0.
C32_RepeatAsStated ==
    AnimStep =>
        \A a \in StartedOnWidget :
            IF AbsentOrNegative THEN a.infinite
            ELSE IF Asked.number /\ Asked.int > 0 THEN a.repeat = Asked.int
            ELSE IF Asked.number /\ Asked.int = 0
            THEN IF op.topic \in {AT_breathe, AT_color_pulse}
                 THEN a.infinite
                 ELSE ~a.infinite /\ a.repeat = 0
            ELSE TRUE

\* C32, amended: a repeat that is absent, is not a number, or has a negative
\* integer value means infinite; a positive integer value n means n cycles;
\* the integer value 0 means infinite for breathe, spin and color_pulse and
\* a count of 0 for blink.
C32_RepeatSemantics ==
    AnimStep =>
        \A a \in StartedOnWidget :
            IF ~Asked.number \/ Asked.int < 0 THEN a.infinite
            ELSE IF Asked.int > 0
            THEN ~a.infinite /\ a.repeat = Asked.int
            ELSE IF op.topic = AT_blink
            THEN ~a.infinite /\ a.repeat = 0
            ELSE a.infinite

\* A spin with repeat 0 has just been started on an image, and it repeats
\* for ever.
C32_Witness ==
    /\ AnimStep
    /\ op.topic = AT_spin
    /\ Asked.text = RepeatMember(<<"0">>)
    /\ \E a \in StartedOnWidget : a.infinite

(***************************************************************************)
(* The text of an update, under SpecText                                    *)
(***************************************************************************)
\* C33 as stated, refuted: the object an update's text is applied to is the
\* target when the target is a label and the target's first child
\* otherwise, and it is a label for every kind of target.  The update
\* chooses by the number of children, not by the class: a target without
\* children receives the text itself, whatever it is, and a first child
\* receives it, whatever it is.
C33_TextOnLabel ==
    lv_log.labelled # 0 =>
        /\ lv_objs[lv_log.labelled].class = "lv_label"
        /\ lv_log.labelled = IF lv_objs[lv_log.target].class = "lv_label"
                             THEN lv_log.target
                             ELSE TextHolder(lv_objs, lv_log.target)

\* The text goes to the first child of a target that has children, and to
\* the target otherwise.
C33_TextOnFirstChild ==
    lv_log.labelled # 0 =>
        lv_log.labelled =
            IF lv_obj_get_child_count(lv_objs, lv_log.target) > 0
            THEN CHOOSE h \in Children(lv_objs, lv_log.target) :
                     \A g \in Children(lv_objs, lv_log.target) : h <= g
            ELSE lv_log.target

(***************************************************************************)
(* The report of a released slider, under SpecSlider                        *)
(***************************************************************************)
\* The on_change URI stored for a slider, empty when none is stored.
ChangeUri(obj) ==
    IF \E p \in DOMAIN lv_heap :
           lv_heap[p].kind = "slider_data_t" /\ lv_heap[p].owner = obj
    THEN lv_heap[CHOOSE p \in DOMAIN lv_heap :
                     /\ lv_heap[p].kind = "slider_data_t"
                     /\ lv_heap[p].owner = obj].on_change
    ELSE <<>>

SliderReleased ==
    op.name = "lv_obj_send_event" /\ op.cb = "LV_EVENT_RELEASED"

\* {"id":"a","value":<current value>}
SliderReport(obj) ==
    PL_HEAD \o S_a \o PL_VALUE \o print_number(lv_objs[obj].value)
        \o <<"}">>

\* The one publish of a release on a slider whose URI is not empty, with
\* the topic a URI without scheme is reported on.
ReportedOnce(obj, fallback) ==
    lv_log.pubs =
        << [kind |-> IF HasPrefix(ChangeUri(obj), 1, URI_LOCAL)
                     THEN "local" ELSE "up",
            topic |-> IF HasPrefix(ChangeUri(obj), 1, URI_LOCAL)
                      THEN SubSeq(ChangeUri(obj), Len(URI_LOCAL) + 1,
                                  Len(ChangeUri(obj)))
                      ELSE IF HasPrefix(ChangeUri(obj), 1, URI_SERVER)
                      THEN SubSeq(ChangeUri(obj), Len(URI_SERVER) + 1,
                                  Len(ChangeUri(obj)))
                      ELSE fallback,
            payload |-> SliderReport(obj)] >>

\* C34 as stated, refuted: a released slider with an on_change URI reports
\* {"id":<id>,"value":<value>} exactly once, a local:// URI on the local bus
\* and a server:// URI on the uplink on the stripped topic, any other
\* non-empty URI on the uplink on ui/click; a slider without on_change
\* reports nothing.  The slider reports a URI without scheme on ui/action.
C34_SliderReport ==
    SliderReleased =>
        IF ChangeUri(op.n) = <<>> THEN lv_log.pubs = <<>>
        ELSE ReportedOnce(op.n, T_ui_click)

\* The same with the topic ui/action for a URI without scheme.
C34_SliderReportAction ==
    SliderReleased =>
        IF ChangeUri(op.n) = <<>> THEN lv_log.pubs = <<>>
        ELSE ReportedOnce(op.n, T_ui_action)

(***************************************************************************)
(* Animations and timers after their node was deleted, under SpecExec       *)
(***************************************************************************)
\* C35 as stated, refuted: once render has deleted a node, no animation
\* started for it and no particle timer created for it runs again, so no
\* animation or timer callback touches a deleted node or a freed state
\* struct.  The colour pulse is started on its state struct, not on the
\* node: deleting the node frees the struct and leaves the animation
\* running on it.
C35_NoCallbackAfterDelete ==
    /\ \A i \in 1..Len(lv_log.executed) :
          /\ ~lv_log.executed[i].freed
          /\ lv_log.executed[i].obj \in 1..Len(lv_objs)
    /\ \A a \in lv_anims :
          IF a.exec_cb = "anim_color_exec_cb"
          THEN a.var_mem \in DOMAIN lv_heap
          ELSE a.var_obj \in 1..Len(lv_objs)
    /\ \A i \in 1..Len(lv_log.canvas) :
          lv_log.canvas[i].canvas \in 1..Len(lv_objs)

\* The animations started on a node, and the particle timers, end with it.
C35_NodeAnimationsEnd ==
    /\ \A i \in 1..Len(lv_log.executed) :
          lv_log.executed[i].cb # "anim_color_exec_cb" =>
              lv_log.executed[i].obj \in 1..Len(lv_objs)
    /\ \A a \in lv_anims :
          a.exec_cb # "anim_color_exec_cb" =>
              a.var_obj \in 1..Len(lv_objs)
    /\ \A pd \in Timers : lv_heap[pd].owner \in 1..Len(lv_objs)
    /\ \A i \in 1..Len(lv_log.canvas) :
          lv_log.canvas[i].canvas \in 1..Len(lv_objs)

(***************************************************************************)
(* A render and the renders before it, under SpecHistory                    *)
(***************************************************************************)
\* The engine after sdui_parser_init and the render of one layout.
RenderedAlone(layout) ==
    sdui_parser_render(sdui_parser_init(ZeroUi), layout)

HistoryRendered == op'.name = "sdui_parser_render" /\ pc' = "history"

\* The objects with the root view's own properties left out.
BelowRoot(objs, root) ==
    [objs EXCEPT ![root].hidden = FALSE, ![root].bg_color = NULLSTR]

\* C36 as stated, refuted: after a render the root view's properties, the
\* scene graph, the ID registry and the spin counter are those the same
\* render gives on an engine that has rendered nothing before.  The hidden
\* flag and the background colour an earlier layout gave the root view
\* stay.
C36_RenderForgets ==
    [][HistoryRendered =>
          /\ s_root_view' = RenderedAlone(op'.payload).s_root_view
          /\ lv_objs' = RenderedAlone(op'.payload).lv_objs
          /\ s_id_table' = RenderedAlone(op'.payload).s_id_table
          /\ s_spin_count' = RenderedAlone(op'.payload).s_spin_count]_vars

\* The same without the root view's hidden flag and background colour.
C36_RenderForgetsBelowRoot ==
    [][HistoryRendered =>
          /\ s_root_view' = RenderedAlone(op'.payload).s_root_view
          /\ BelowRoot(lv_objs', s_root_view') =
                 BelowRoot(RenderedAlone(op'.payload).lv_objs,
                           RenderedAlone(op'.payload).s_root_view)
          /\ s_id_table' = RenderedAlone(op'.payload).s_id_table
          /\ s_spin_count' = RenderedAlone(op'.payload).s_spin_count]_vars

(***************************************************************************)
(* The UI lock and the network send, under SpecLock                         *)
(***************************************************************************)
\* The LVGL task, holding the UI lock, is inside the library's send while
\* the websocket task waits for the UI lock in a subscriber.
BothWait ==
    /\ sender # Returned
    /\ ui_lock.holder = "lvgl_task"
    /\ rx_task # Delivered

\* C37 as stated, refuted: whenever the websocket task waits for the UI
\* lock in the ui/layout or ui/update subscriber while the LVGL task,
\* holding the lock, publishes upward from an action dispatch, both tasks
\* eventually proceed, and no task holding the UI lock waits for ever in
\* the network send.  The send waits with portMAX_DELAY: while the library
\* cannot take the frame, the LVGL task keeps the lock and the websocket
\* task stays in bsp_display_lock.
C37_BothProceed ==
    /\ BothWait ~> (sender = Returned /\ rx_task = Delivered)
    /\ (sender # Returned /\ ui_lock.holder = "lvgl_task")
           ~> (sender = Returned)

\* When the library can take a frame again and again, both tasks proceed.
C37_ProceedWhenWritable ==
    ([]<>tx_ready) =>
        /\ BothWait ~> (sender = Returned)
        /\ BothWait ~> (rx_task = Delivered)

\* The two tasks are found waiting on each other's progress.
C37_BothWaitReached == ~BothWait

(***************************************************************************)
(* The local topics and the wire, under Spec                                *)
(***************************************************************************)
RecordHandlers == {"on_audio_record_start", "on_audio_record_stop"}

\* C38 as stated, refuted: no frame received from the server, whatever its
\* topic and payload, runs the record_start or record_stop handler, changes
\* the recording flag or causes an audio/record uplink.  The bus keeps one
\* table for the wire and the local publishes: a frame whose topic is
\* audio/cmd/record_start reaches on_audio_record_start.
C38_WireCannotRecord ==
    [][op'.name = "WEBSOCKET_EVENT_DATA" =>
          /\ is_recording' = is_recording
          /\ \A i \in DOMAIN calls' : calls'[i].cb \notin RecordHandlers
          /\ \A i \in DOMAIN send_calls' :
                 send_calls'[i].by \notin
                     {"audio_record_start", "audio_record_stop"}]_vars

\* A frame whose topic no handler of the record commands is subscribed to
\* leaves the recording flag alone.
C38_OtherTopicsCannotRecord ==
    [][(/\ op'.name = "WEBSOCKET_EVENT_DATA"
        /\ \A i \in DOMAIN calls' : calls'[i].cb \notin RecordHandlers) =>
          /\ is_recording' = is_recording
          /\ \A i \in DOMAIN send_calls' :
                 send_calls'[i].by \notin
                     {"audio_record_start", "audio_record_stop"}]_vars

(***************************************************************************)
(* The send beside the event task, under SpecRace                           *)
(***************************************************************************)
\* The step is the call of the library by the task that passed the test.
HandedOver ==
    sender.state = "checked" /\ op'.name = "esp_websocket_client_send_text"

\* C39 as stated, refuted: in every interleaving of a sending task with the
\* event task a text is handed to the library only while the transport is
\* connected.  The test and the call are two statements with nothing
\* between them that keeps the event task out: a disconnect after the test
\* leaves the call to be made on a link that is down.
C39_HandedOnlyConnected ==
    [][HandedOver =>
          /\ is_connected
          /\ link = "connected"
          /\ client # NULLCLIENT]_vars

\* The test itself lets no text through while the flag is down.
C39_TestedWhileConnected ==
    [][(op'.name = "websocket_send_json" /\ sender'.state = "checked") =>
          /\ is_connected
          /\ client # NULLCLIENT
          /\ op'.payload # NULLSTR]_vars

(***************************************************************************)
(* Envelopes without a payload member, under SpecAbsent                     *)
(***************************************************************************)
AbsentRouted == op.name = "sdui_bus_route_down" /\ op.payload \in AbsentFrames

\* Every subscriber of the step was invoked with an absent payload, and no
\* render, update or speaker write took place.
NothingDone ==
    /\ calls # <<>>
    /\ \A i \in DOMAIN calls : calls[i].payload = NULLSTR
    /\ lv_log.ran = <<>>
    /\ ~lv_log.cleaned
    /\ lv_log.spk = <<>>

\* C40 as stated, refuted: an envelope with the topic ui/layout, ui/update
\* or audio/play and without a payload member is absorbed: each matching
\* subscriber is invoked with an absent payload and returns without reading
\* through it, and there is no render, no update and no speaker write.
\* audio_play_callback takes the length of its argument before it tests
\* it.
C40_AbsentPayloadAbsorbed ==
    AbsentRouted => (NothingDone /\ ~lv_log.null_read)

\* For ui/layout and ui/update the subscriber returns at its first
\* statement; for audio/play nothing is written to the speaker.
C40_AbsentPayloadNotActedOn ==
    AbsentRouted =>
        /\ NothingDone
        /\ lv_log.null_read => op.payload = TopicOnly(T_audio_play)
        /\ lv_log.halted => lv_log.null_read

C40_AbsentAudioRouted ==
    /\ AbsentRouted
    /\ op.payload = TopicOnly(T_audio_play)
    /\ calls # <<>>
    /\ lv_log.null_read

=============================================================================
